---- MODULE Spec2Model ----
(***************************************************************************)
(* Model of src/server.js: the retrying remote caller (doNotion), the      *)
(* relation title resolver (resolveTitleToId), the property builder        *)
(* (buildProp) and the /upsert_page handler.                               *)
(*                                                                         *)
(* JavaScript strings are sequences of one-character strings, so that the  *)
(* conversions of the source (normId, toDashedUuid, toLowerCase, trim, the *)
(* uuid regular expression) are computed and not assumed.                  *)
(***************************************************************************)
EXTENDS Integers, Sequences, FiniteSets, TLC

VARIABLES
    \* ---- process configuration (src/server.js:789-801) ----
    env,
    \* ---- one doNotion call (src/server.js:857-877) ----
    dnPc,        \* "idle" | "loop" | "await" | "sleep" | "done"
    attempt,     \* let attempt
    lastErr,     \* let lastErr
    pendingErr,  \* err of the catch block while the handler sleeps
    requests,    \* number of axios requests issued by the call
    sleeps,      \* number of sleep() calls of the call
    waited,      \* sum of the ms passed to sleep()
    waits,       \* the ms passed to each sleep(), in order
    responses,   \* the statuses received, in order
    dnResult,    \* what the call returned or threw
    \* ---- one /upsert_page request (src/server.js:1330-1648) ----
    pc,               \* position of the handler
    req,              \* the parsed request
    reqBody,          \* req.body as it arrived, before the handler assigns to it
    props,            \* schemaResp.data.properties
    normalizedFields, \* const normalizedFields
    fi,               \* index of the field entry a loop is at
    ai,               \* index of the array item the normalization loop is at
    out,              \* const out of the array branch
    nullTitles,       \* the titles the resolver returned null for, with their field
    unresolved,       \* const unresolved
    properties,       \* const properties
    propertiesProto,  \* the prototype of properties: none (Object.prototype), or the value
                      \* line 1599 assigned under "__proto__"
    skips,            \* const skips
    usersIndex,       \* globalThis.__solUsersIndex
    upsertCreated,    \* the POST /v1/pages of /upsert_page (line 1633) answered
                      \* with 200: the pages these requests created (the
                      \* routes /update_task and /notion_test_create create
                      \* pages too, and are no part of this model)
    calls,            \* remote calls issued by the request, in order
    writePayload,     \* the properties sent in the POST/PATCH of the record
    res,              \* the response sent
    statuses,         \* what each remote call of `calls` ended with
    lookups,          \* the resolveTitleToId calls: field, title, database, result
    suggestDb,        \* the database the suggestions were asked from
    writeTarget,      \* the page id in the URL of the PATCH of the record
    \* ---- one resolveTitleToId call (src/server.js:880-930) ----
    rsPc,        \* "idle" | "schema" | "exact" | "contains" | "search" | "done"
    rsDb,        \* dbId
    rsTitle,     \* titleStr
    rsTitleProp, \* let titleProp
    rsMatch,     \* let match (NoPage while undefined)
    rsCalls,     \* the requests issued by the call, in order
    rsSeen,      \* the results of the search request
    rsResult,    \* what the call returned
    \* ---- one buildProp call (src/server.js:1470-1582) ----
    bpDef,       \* props[propName]
    bpValue,     \* value
    bpBuilt,     \* what the call returned
    \* ---- calls of getNotionDbId (src/server.js:836-842) ----
    giKey,       \* dbKey
    giCalls,     \* number of calls made with that key
    giPrev,      \* what the call before the last returned
    giOut,       \* what the last call returned
    \* ---- concurrent requests with a people field (src/server.js:1515-1520) ----
    pePc,        \* where each request is: "idle", "fetching", "done", "failed"
    pePage,      \* the number of GET /v1/users each request has issued
    peAcc,       \* byEmail of the listAllUsers call of each request, so far
    peUsed,      \* idx, the index each request looked its people up in
    peBuilt,     \* the indexes assigned to globalThis.__solUsersIndex, in order
    \* ---- one request made twice (src/server.js:1330-1648) ----
    schemaResp,  \* the properties of the schema this request's fetch returned
    rpRun,       \* 0 before the first request, then 1, then 2
    rpBody,      \* the body both requests carry
    rpFirst,     \* what the first request fetched, resolved and wrote
    \* ---- requireSolAuth before a route's handler (src/server.js:827-834) ----
    auPc,        \* "idle" | "check" | "handler" | "done"
    auRoute,     \* the route of the request
    auHeaders,   \* req.headers: x-sol-token and authorization ("" when absent)
    auRes,       \* the status the middleware answered with, 0 when it did not
    auEntered,   \* whether the route's handler was entered
    \* ---- one /delete_page request (src/server.js:1651-1716) ----
    dlPc,        \* "idle" | "resolve" | "act" | "done"
    dlReq,       \* req.body
    dlPageId,    \* let pageId
    dlCalls,     \* the remote calls the handler itself issued, in order
    dlRes,       \* what res.status(...).json(...) was given
    dlArchived   \* the ids of the pages the remote store has archived

dnVars == <<dnPc, attempt, lastErr, pendingErr, requests, sleeps, waited, waits,
            responses, dnResult>>
\* the locals of one /upsert_page request, and with them the process-wide index
upLocals == <<pc, req, reqBody, props, normalizedFields, fi, ai, out, nullTitles, unresolved,
              properties, propertiesProto, skips, calls, writePayload, res, statuses, lookups,
              suggestDb, writeTarget, schemaResp>>
upVars == <<upLocals, usersIndex, upsertCreated>>
rsVars == <<rsPc, rsDb, rsTitle, rsTitleProp, rsMatch, rsCalls, rsSeen, rsResult>>
bpVars == <<bpDef, bpValue, bpBuilt>>
giVars == <<giKey, giCalls, giPrev, giOut>>
peVars == <<pePc, pePage, peAcc, peUsed, peBuilt>>
rpVars == <<rpRun, rpBody, rpFirst>>
auVars == <<auPc, auRoute, auHeaders, auRes, auEntered>>
dlVars == <<dlPc, dlReq, dlPageId, dlCalls, dlRes, dlArchived>>
vars == <<env, dnVars, upVars, rsVars, bpVars, giVars, peVars, rpVars, auVars, dlVars>>

----------------------------------------------------------------------------
\* Strings

\* A string is the sequence of its characters (UTF-16 code units). A printable
\* ASCII character other than the grave accent is written as itself, TAB, LF,
\* FF and CR as "\t", "\n", "\f" and "\r", and every other character by its
\* code point, as "U+00E9".
\* The characters of the model are those of the blocks Basic Latin, Latin-1
\* Supplement, Latin Extended-A, Greek and Coptic, and Cyrillic
\* (U+0000..U+017F, U+0370..U+03FF, U+0400..U+04FF), U+0307, U+2126, U+212A,
\* U+212B, the white space of the language, and U+0085, U+180E and U+200B,
\* which are no white space; toLowerCase and trim are the functions of the
\* language on these characters.

\* the characters with a one-character lower-case form other than themselves
UpperChars ==
    <<"A", "B", "C", "D", "E", "F", "G", "H", "I", "J", "K", "L", "M", "N", "O", "P", "Q",
      "R", "S", "T", "U", "V", "W", "X", "Y", "Z", "U+00C0", "U+00C1", "U+00C2", "U+00C3",
      "U+00C4", "U+00C5", "U+00C6", "U+00C7", "U+00C8", "U+00C9", "U+00CA", "U+00CB",
      "U+00CC", "U+00CD", "U+00CE", "U+00CF", "U+00D0", "U+00D1", "U+00D2", "U+00D3",
      "U+00D4", "U+00D5", "U+00D6", "U+00D8", "U+00D9", "U+00DA", "U+00DB", "U+00DC",
      "U+00DD", "U+00DE", "U+0100", "U+0102", "U+0104", "U+0106", "U+0108", "U+010A",
      "U+010C", "U+010E", "U+0110", "U+0112", "U+0114", "U+0116", "U+0118", "U+011A",
      "U+011C", "U+011E", "U+0120", "U+0122", "U+0124", "U+0126", "U+0128", "U+012A",
      "U+012C", "U+012E", "U+0132", "U+0134", "U+0136", "U+0139", "U+013B", "U+013D",
      "U+013F", "U+0141", "U+0143", "U+0145", "U+0147", "U+014A", "U+014C", "U+014E",
      "U+0150", "U+0152", "U+0154", "U+0156", "U+0158", "U+015A", "U+015C", "U+015E",
      "U+0160", "U+0162", "U+0164", "U+0166", "U+0168", "U+016A", "U+016C", "U+016E",
      "U+0170", "U+0172", "U+0174", "U+0176", "U+0178", "U+0179", "U+017B", "U+017D",
      "U+0370", "U+0372", "U+0376", "U+037F", "U+0386", "U+0388", "U+0389", "U+038A",
      "U+038C", "U+038E", "U+038F", "U+0391", "U+0392", "U+0393", "U+0394", "U+0395",
      "U+0396", "U+0397", "U+0398", "U+0399", "U+039A", "U+039B", "U+039C", "U+039D",
      "U+039E", "U+039F", "U+03A0", "U+03A1", "U+03A3", "U+03A4", "U+03A5", "U+03A6",
      "U+03A7", "U+03A8", "U+03A9", "U+03AA", "U+03AB", "U+03CF", "U+03D8", "U+03DA",
      "U+03DC", "U+03DE", "U+03E0", "U+03E2", "U+03E4", "U+03E6", "U+03E8", "U+03EA",
      "U+03EC", "U+03EE", "U+03F4", "U+03F7", "U+03F9", "U+03FA", "U+03FD", "U+03FE",
      "U+03FF", "U+0400", "U+0401", "U+0402", "U+0403", "U+0404", "U+0405", "U+0406",
      "U+0407", "U+0408", "U+0409", "U+040A", "U+040B", "U+040C", "U+040D", "U+040E",
      "U+040F", "U+0410", "U+0411", "U+0412", "U+0413", "U+0414", "U+0415", "U+0416",
      "U+0417", "U+0418", "U+0419", "U+041A", "U+041B", "U+041C", "U+041D", "U+041E",
      "U+041F", "U+0420", "U+0421", "U+0422", "U+0423", "U+0424", "U+0425", "U+0426",
      "U+0427", "U+0428", "U+0429", "U+042A", "U+042B", "U+042C", "U+042D", "U+042E",
      "U+042F", "U+0460", "U+0462", "U+0464", "U+0466", "U+0468", "U+046A", "U+046C",
      "U+046E", "U+0470", "U+0472", "U+0474", "U+0476", "U+0478", "U+047A", "U+047C",
      "U+047E", "U+0480", "U+048A", "U+048C", "U+048E", "U+0490", "U+0492", "U+0494",
      "U+0496", "U+0498", "U+049A", "U+049C", "U+049E", "U+04A0", "U+04A2", "U+04A4",
      "U+04A6", "U+04A8", "U+04AA", "U+04AC", "U+04AE", "U+04B0", "U+04B2", "U+04B4",
      "U+04B6", "U+04B8", "U+04BA", "U+04BC", "U+04BE", "U+04C0", "U+04C1", "U+04C3",
      "U+04C5", "U+04C7", "U+04C9", "U+04CB", "U+04CD", "U+04D0", "U+04D2", "U+04D4",
      "U+04D6", "U+04D8", "U+04DA", "U+04DC", "U+04DE", "U+04E0", "U+04E2", "U+04E4",
      "U+04E6", "U+04E8", "U+04EA", "U+04EC", "U+04EE", "U+04F0", "U+04F2", "U+04F4",
      "U+04F6", "U+04F8", "U+04FA", "U+04FC", "U+04FE", "U+2126", "U+212A", "U+212B">>
\* their lower-case forms, in the same order
LowerChars ==
    <<"a", "b", "c", "d", "e", "f", "g", "h", "i", "j", "k", "l", "m", "n", "o", "p", "q",
      "r", "s", "t", "u", "v", "w", "x", "y", "z", "U+00E0", "U+00E1", "U+00E2", "U+00E3",
      "U+00E4", "U+00E5", "U+00E6", "U+00E7", "U+00E8", "U+00E9", "U+00EA", "U+00EB",
      "U+00EC", "U+00ED", "U+00EE", "U+00EF", "U+00F0", "U+00F1", "U+00F2", "U+00F3",
      "U+00F4", "U+00F5", "U+00F6", "U+00F8", "U+00F9", "U+00FA", "U+00FB", "U+00FC",
      "U+00FD", "U+00FE", "U+0101", "U+0103", "U+0105", "U+0107", "U+0109", "U+010B",
      "U+010D", "U+010F", "U+0111", "U+0113", "U+0115", "U+0117", "U+0119", "U+011B",
      "U+011D", "U+011F", "U+0121", "U+0123", "U+0125", "U+0127", "U+0129", "U+012B",
      "U+012D", "U+012F", "U+0133", "U+0135", "U+0137", "U+013A", "U+013C", "U+013E",
      "U+0140", "U+0142", "U+0144", "U+0146", "U+0148", "U+014B", "U+014D", "U+014F",
      "U+0151", "U+0153", "U+0155", "U+0157", "U+0159", "U+015B", "U+015D", "U+015F",
      "U+0161", "U+0163", "U+0165", "U+0167", "U+0169", "U+016B", "U+016D", "U+016F",
      "U+0171", "U+0173", "U+0175", "U+0177", "U+00FF", "U+017A", "U+017C", "U+017E",
      "U+0371", "U+0373", "U+0377", "U+03F3", "U+03AC", "U+03AD", "U+03AE", "U+03AF",
      "U+03CC", "U+03CD", "U+03CE", "U+03B1", "U+03B2", "U+03B3", "U+03B4", "U+03B5",
      "U+03B6", "U+03B7", "U+03B8", "U+03B9", "U+03BA", "U+03BB", "U+03BC", "U+03BD",
      "U+03BE", "U+03BF", "U+03C0", "U+03C1", "U+03C3", "U+03C4", "U+03C5", "U+03C6",
      "U+03C7", "U+03C8", "U+03C9", "U+03CA", "U+03CB", "U+03D7", "U+03D9", "U+03DB",
      "U+03DD", "U+03DF", "U+03E1", "U+03E3", "U+03E5", "U+03E7", "U+03E9", "U+03EB",
      "U+03ED", "U+03EF", "U+03B8", "U+03F8", "U+03F2", "U+03FB", "U+037B", "U+037C",
      "U+037D", "U+0450", "U+0451", "U+0452", "U+0453", "U+0454", "U+0455", "U+0456",
      "U+0457", "U+0458", "U+0459", "U+045A", "U+045B", "U+045C", "U+045D", "U+045E",
      "U+045F", "U+0430", "U+0431", "U+0432", "U+0433", "U+0434", "U+0435", "U+0436",
      "U+0437", "U+0438", "U+0439", "U+043A", "U+043B", "U+043C", "U+043D", "U+043E",
      "U+043F", "U+0440", "U+0441", "U+0442", "U+0443", "U+0444", "U+0445", "U+0446",
      "U+0447", "U+0448", "U+0449", "U+044A", "U+044B", "U+044C", "U+044D", "U+044E",
      "U+044F", "U+0461", "U+0463", "U+0465", "U+0467", "U+0469", "U+046B", "U+046D",
      "U+046F", "U+0471", "U+0473", "U+0475", "U+0477", "U+0479", "U+047B", "U+047D",
      "U+047F", "U+0481", "U+048B", "U+048D", "U+048F", "U+0491", "U+0493", "U+0495",
      "U+0497", "U+0499", "U+049B", "U+049D", "U+049F", "U+04A1", "U+04A3", "U+04A5",
      "U+04A7", "U+04A9", "U+04AB", "U+04AD", "U+04AF", "U+04B1", "U+04B3", "U+04B5",
      "U+04B7", "U+04B9", "U+04BB", "U+04BD", "U+04BF", "U+04CF", "U+04C2", "U+04C4",
      "U+04C6", "U+04C8", "U+04CA", "U+04CC", "U+04CE", "U+04D1", "U+04D3", "U+04D5",
      "U+04D7", "U+04D9", "U+04DB", "U+04DD", "U+04DF", "U+04E1", "U+04E3", "U+04E5",
      "U+04E7", "U+04E9", "U+04EB", "U+04ED", "U+04EF", "U+04F1", "U+04F3", "U+04F5",
      "U+04F7", "U+04F9", "U+04FB", "U+04FD", "U+04FF", "U+03C9", "k", "U+00E5">>
Uppers == {UpperChars[i] : i \in 1..Len(UpperChars)}
Lowers == {LowerChars[i] : i \in 1..Len(LowerChars)}

\* the lower-case form of one character that has a one-character form
LowerChar(c) ==
    IF c \in Uppers
    THEN LowerChars[CHOOSE i \in 1..Len(UpperChars) : UpperChars[i] = c]
    ELSE c

\* the characters the case conversion looks through (Case_Ignorable)
CaseIgnorable ==
    {"'", ".", ":", "^", "U+0060", "U+00A8", "U+00AD", "U+00AF", "U+00B4", "U+00B7",
     "U+00B8", "U+0307", "U+0374", "U+0375", "U+037A", "U+0384", "U+0385", "U+0387",
     "U+0483", "U+0484", "U+0485", "U+0486", "U+0487", "U+0488", "U+0489", "U+180E",
     "U+200B", "U+FEFF"}
\* the cased letters without a one-character case pair
OtherCased ==
    {"U+00AA", "U+00B5", "U+00BA", "U+00DF", "U+0130", "U+0131", "U+0138", "U+0149",
     "U+017F", "U+0390", "U+03B0", "U+03C2", "U+03D0", "U+03D1", "U+03D2", "U+03D3",
     "U+03D4", "U+03D5", "U+03D6", "U+03F0", "U+03F1", "U+03F5", "U+03FC"}
\* the cased letters (Cased), those looked through left out
Cased == (Uppers \cup Lowers \cup OtherCased) \ CaseIgnorable

\* before s[i], case-ignorable characters skipped, stands a cased letter
RECURSIVE CasedBefore(_, _)
CasedBefore(s, i) ==
    IF i < 1 THEN FALSE
    ELSE IF s[i] \in CaseIgnorable THEN CasedBefore(s, i - 1)
    ELSE s[i] \in Cased
\* after s[i], case-ignorable characters skipped, stands a cased letter
RECURSIVE CasedAfter(_, _)
CasedAfter(s, i) ==
    IF i > Len(s) THEN FALSE
    ELSE IF s[i] \in CaseIgnorable THEN CasedAfter(s, i + 1)
    ELSE s[i] \in Cased
\* the condition Final_Sigma of the case conversion, for the sigma at s[i]
FinalSigma(s, i) == CasedBefore(s, i - 1) /\ ~CasedAfter(s, i + 1)

\* what toLowerCase puts for s[i]: a capital sigma depends on its place, and
\* U+0130 gives two characters
LowerAt(s, i) ==
    IF s[i] = "U+03A3"
    THEN <<IF FinalSigma(s, i) THEN "U+03C2" ELSE "U+03C3">>
    ELSE IF s[i] = "U+0130" THEN <<"i", "U+0307">>
    ELSE <<LowerChar(s[i])>>
RECURSIVE LowerFrom(_, _)
LowerFrom(s, i) == IF i > Len(s) THEN <<>> ELSE LowerAt(s, i) \o LowerFrom(s, i + 1)

\* String.prototype.toLowerCase
toLowerCase(s) == LowerFrom(s, 1)

IsNotDash(c) == c # "-"

\* s.replace(/-/g, "")
StripDashes(s) == SelectSeq(s, IsNotDash)

HexChars == {"0","1","2","3","4","5","6","7","8","9",
             "a","b","c","d","e","f","A","B","C","D","E","F"}

AllHex(s) == \A i \in 1..Len(s) : s[i] \in HexChars

\* WhiteSpace and LineTerminator of the language: TAB, LF, VT, FF, CR, SP,
\* NBSP, U+1680, U+2000..U+200A, LS, PS, U+202F, U+205F, U+3000 and ZWNBSP
WhiteSpace ==
    {"\t", "\n", "U+000B", "\f", "\r", " ", "U+00A0", "U+1680", "U+2000", "U+2001", "U+2002",
     "U+2003", "U+2004", "U+2005", "U+2006", "U+2007", "U+2008", "U+2009", "U+200A",
     "U+2028", "U+2029", "U+202F", "U+205F", "U+3000", "U+FEFF"}

\* String.prototype.trimStart, trimEnd, trim
RECURSIVE TrimLeft(_)
TrimLeft(s) == IF s # <<>> /\ Head(s) \in WhiteSpace THEN TrimLeft(Tail(s)) ELSE s
RECURSIVE TrimRight(_)
TrimRight(s) ==
    IF s # <<>> /\ s[Len(s)] \in WhiteSpace
    THEN TrimRight(SubSeq(s, 1, Len(s) - 1))
    ELSE s
trim(s) == TrimRight(TrimLeft(s))

\* function normId(s), for a string s
normId(s) == toLowerCase(StripDashes(s))

\* function toDashedUuid(s), for a string s
toDashedUuid(s) ==
    LET raw == StripDashes(s) IN
    IF Len(raw) = 32 /\ AllHex(raw)
    THEN SubSeq(raw, 1, 8) \o <<"-">> \o SubSeq(raw, 9, 12) \o <<"-">> \o
         SubSeq(raw, 13, 16) \o <<"-">> \o SubSeq(raw, 17, 20) \o <<"-">> \o
         SubSeq(raw, 21, 32)
    ELSE s

\* const uuidRe = /^[0-9a-fA-F]{8}-[0-9a-fA-F]{4}-[0-9a-fA-F]{4}-[0-9a-fA-F]{4}-[0-9a-fA-F]{12}$/
uuidReTest(s) ==
    /\ Len(s) = 36
    /\ \A i \in 1..36 :
          IF i \in {9, 14, 19, 24} THEN s[i] = "-" ELSE s[i] \in HexChars

Rep(c, n) == [i \in 1..n |-> c]

----------------------------------------------------------------------------
\* doNotion: generic Notion call with retry/backoff for 409/429

max_six == 5 + 1
\* const max = 5
max == 5

\* statuses an attempt can end with: 200 is a response, 0 is an error that has
\* no response (err.response undefined), the others are error statuses
Statuses == {200, 409, 429, 404, 0}

\* Math.floor(Math.random() * 100) ranges over 0..99; the ends and a middle value
Jitters == {0, 50, 99}

IsTransient_Any4xx(status) == status \in {404, 409, 429}
IsTransient_Only429(status) == status = 429
\* status === 409 || status === 429
IsTransient(status) == status = 409 \/ status = 429

Pow2_Linear(n) == n + 1
\* Math.pow(2, n)
RECURSIVE Pow2(_)
Pow2(n) == IF n = 0 THEN 1 ELSE 2 * Pow2(n - 1)

Min(a, b) == IF a < b THEN a ELSE b

BackoffWait_NoCap(a, jitter) == 250 * Pow2(a) + jitter
\* Math.min(2000, 250 * Math.pow(2, attempt)) + jitter
BackoffWait(a, jitter) == Min(2000, 250 * Pow2(a)) + jitter

NextAttempt_Stuck == attempt
\* attempt++
NextAttempt == attempt + 1

\* an error object: its status and the request (1-based) that raised it
Err(status, n) == [status |-> status, n |-> n]
NoErr == Err(-1, 0)
\* new Error("Unknown Notion error")
UnknownErr == Err(-2, 0)

Pending == [kind |-> "pending", status |-> -1, n |-> 0]
Returned(status, n) == [kind |-> "return", status |-> status, n |-> n]
Thrown(e) == [kind |-> "throw", status |-> e.status, n |-> e.n]

LoopGuard_OneShort == attempt < max - 1
\* while (attempt < max)
LoopGuard == attempt < max

NextLastErr_KeepFirst(err) == IF lastErr = NoErr THEN err ELSE lastErr
\* lastErr = err
NextLastErr(err) == err

DnInit ==
    /\ dnPc = "loop"
    /\ attempt = 0
    /\ lastErr = NoErr
    /\ pendingErr = NoErr
    /\ requests = 0
    /\ sleeps = 0
    /\ waited = 0
    /\ waits = <<>>
    /\ responses = <<>>
    /\ dnResult = Pending

\* while (attempt < max) { try { ... await axios({ method, url, ... }): the
\* request is issued, and the call is suspended until axios settles
DnAttempt ==
    /\ dnPc = "loop"
    /\ LoopGuard
    /\ requests' = requests + 1
    /\ dnPc' = "await"
    /\ UNCHANGED <<attempt, lastErr, pendingErr, sleeps, waited, waits, responses,
                   dnResult>>

\* the promise of axios settles: return its response, or catch (err) { ...
\* throw err }.  The request carries no timeout and no signal, so nothing in
\* the program makes this step happen: it is the remote's
DnAnswer ==
    /\ dnPc = "await"
    /\ \E status \in Statuses :
          /\ responses' = Append(responses, status)
          /\ IF status = 200
             THEN /\ dnResult' = Returned(status, requests)
                  /\ dnPc' = "done"
                  /\ pendingErr' = pendingErr
             ELSE IF IsTransient(status)
             THEN /\ pendingErr' = Err(status, requests)
                  /\ dnPc' = "sleep"
                  /\ dnResult' = dnResult
             ELSE /\ dnResult' = Thrown(Err(status, requests))
                  /\ dnPc' = "done"
                  /\ pendingErr' = pendingErr
    /\ UNCHANGED <<attempt, lastErr, requests, sleeps, waited, waits>>

\* await sleep(wait); attempt++; lastErr = err; continue
DnSleep ==
    /\ dnPc = "sleep"
    /\ \E jitter \in Jitters :
          /\ waited' = waited + BackoffWait(attempt, jitter)
          /\ waits' = Append(waits, BackoffWait(attempt, jitter))
    /\ sleeps' = sleeps + 1
    /\ attempt' = NextAttempt
    /\ lastErr' = NextLastErr(pendingErr)
    /\ dnPc' = "loop"
    /\ UNCHANGED <<pendingErr, requests, responses, dnResult>>

\* throw lastErr || new Error("Unknown Notion error")
DnExhaust ==
    /\ dnPc = "loop"
    /\ ~LoopGuard
    /\ dnResult' = Thrown(IF lastErr # NoErr THEN lastErr ELSE UnknownErr)
    /\ dnPc' = "done"
    /\ UNCHANGED <<attempt, lastErr, pendingErr, requests, sleeps, waited, waits,
                   responses>>

----------------------------------------------------------------------------
\* JavaScript values of a request body.  Every value is a record of one shape:
\* t is the typeof tag ("undef", "null", "str", "num", "bool", "obj", "arr"),
\* s the string, n the number, b the boolean, id the `id` member of an object
\* (empty when absent), m the other members of an object as entries
\* [k |-> name, v |-> value] and items the elements of an array.

ItemM(t, s, n, b, id, m) == [t |-> t, s |-> s, n |-> n, b |-> b, id |-> id, m |-> m]
Item(t, s, n, b, id) == ItemM(t, s, n, b, id, <<>>)
IUndef == Item("undef", <<>>, 0, FALSE, <<>>)
INull == Item("null", <<>>, 0, FALSE, <<>>)
IStr(s) == Item("str", s, 0, FALSE, <<>>)
INum(n) == Item("num", <<>>, n, FALSE, <<>>)
IBool(b) == Item("bool", <<>>, 0, b, <<>>)
IObj(id) == Item("obj", <<>>, 0, FALSE, id)
IObjM(id, m) == ItemM("obj", <<>>, 0, FALSE, id, m)

Val(i, items) ==
    [t |-> i.t, s |-> i.s, n |-> i.n, b |-> i.b, id |-> i.id, m |-> i.m,
     items |-> items]
VUndef == Val(IUndef, <<>>)
VStr(s) == Val(IStr(s), <<>>)
VNum(n) == Val(INum(n), <<>>)
VBool(b) == Val(IBool(b), <<>>)
VObj(id) == Val(IObj(id), <<>>)
VObjM(id, m) == Val(IObjM(id, m), <<>>)
VArr(items) == Val(Item("arr", <<>>, 0, FALSE, <<>>), items)

ItemOf(v) == ItemM(v.t, v.s, v.n, v.b, v.id, v.m)

\* Array.isArray(value) ? value : [value]
AsArray(v) == IF v.t = "arr" THEN v.items ELSE <<ItemOf(v)>>

\* the truthiness of a value: !!x
Truthy(x) ==
    CASE x.t = "str" -> x.s # <<>>
      [] x.t = "num" -> x.n # 0
      [] x.t = "bool" -> x.b
      [] x.t \in {"obj", "arr"} -> TRUE
      [] OTHER -> FALSE

Digits == <<"0","1","2","3","4","5","6","7","8","9">>

\* String(n) for an integer n
RECURSIVE NumToString(_)
NumToString(n) ==
    IF n < 0 THEN <<"-">> \o NumToString(0 - n)
    ELSE IF n < 10 THEN <<Digits[n + 1]>>
    ELSE NumToString(n \div 10) \o <<Digits[(n % 10) + 1]>>

\* String(x) for an array element or a scalar
ItemToString(x) ==
    CASE x.t = "str" -> x.s
      [] x.t = "num" -> NumToString(x.n)
      [] x.t = "bool" -> IF x.b THEN <<"t", "r", "u", "e">> ELSE <<"f", "a", "l", "s", "e">>
      [] x.t = "null" -> <<"n", "u", "l", "l">>
      [] x.t = "undef" -> <<"u", "n", "d", "e", "f", "i", "n", "e", "d">>
      [] OTHER -> <<"[", "o", "b", "j", "e", "c", "t", " ", "O", "b", "j", "e", "c", "t", "]">>

\* Array.prototype.join(","), where null and undefined elements give ""
RECURSIVE JoinItems(_)
JoinItems(items) ==
    IF items = <<>> THEN <<>>
    ELSE LET h == IF Head(items).t \in {"null", "undef"} THEN <<>>
                  ELSE ItemToString(Head(items))
         IN IF Len(items) = 1 THEN h ELSE h \o <<",">> \o JoinItems(Tail(items))

\* String(value)
StringOf(v) == IF v.t = "arr" THEN JoinItems(v.items) ELSE ItemToString(ItemOf(v))

\* String(x) raises a TypeError: x is an object with a member named toString,
\* which is no function in a JSON body, and Object.prototype.valueOf gives no
\* primitive
ItemThrows(x) == x.t = "obj" /\ \E i \in 1..Len(x.m) : x.m[i].k = "toString"

\* String(value) raises: the value itself, or an element that join converts
StringThrows(v) ==
    IF v.t = "arr"
    THEN \E i \in 1..Len(v.items) :
            v.items[i].t \notin {"null", "undef"} /\ ItemThrows(v.items[i])
    ELSE ItemThrows(ItemOf(v))

\* x[k] for a member other than id: undefined unless x is an object with it
MemberOf(x, k) ==
    IF x.t = "obj" /\ \E i \in 1..Len(x.m) : x.m[i].k = k
    THEN x.m[CHOOSE i \in 1..Len(x.m) : x.m[i].k = k].v
    ELSE IUndef

----------------------------------------------------------------------------
\* Objects as ordered lists of entries [k |-> key, v |-> value] (Object.entries)

\* An object is the list of its own entries in the order of Object.entries:
\* the array-index keys in ascending order, then the other keys in the order
\* they were created. A Map is the list of its entries in insertion order.

\* an own key of an object, a key of a Map
Has(entries, k) == \E i \in 1..Len(entries) : entries[i].k = k
Get(entries, k) == entries[CHOOSE i \in 1..Len(entries) : entries[i].k = k].v

\* Map.prototype.set: an existing key keeps its place, a new key goes last
MapSet(entries, k, v) ==
    IF Has(entries, k)
    THEN [i \in 1..Len(entries) |->
            IF entries[i].k = k THEN [k |-> k, v |-> v] ELSE entries[i]]
    ELSE Append(entries, [k |-> k, v |-> v])

IsDigit(c) == \E d \in 1..10 : Digits[d] = c
DigitValue(c) == (CHOOSE d \in 1..10 : Digits[d] = c) - 1

\* a < b for two strings of digits of one length
RECURSIVE DigitsLess(_, _)
DigitsLess(a, b) ==
    /\ a # <<>>
    /\ \/ DigitValue(Head(a)) < DigitValue(Head(b))
       \/ Head(a) = Head(b) /\ DigitsLess(Tail(a), Tail(b))

\* a < b for two array-index keys
IndexLess(a, b) == Len(a) < Len(b) \/ (Len(a) = Len(b) /\ DigitsLess(a, b))

\* 2^32 - 2, the largest array index
MaxArrayIndex == <<"4", "2", "9", "4", "9", "6", "7", "2", "9", "4">>

\* k is an array index: the canonical decimal form of an integer of 0..2^32 - 2
IsArrayIndex(k) ==
    /\ k # <<>>
    /\ \A i \in 1..Len(k) : IsDigit(k[i])
    /\ k[1] = "0" => Len(k) = 1
    /\ Len(k) <= Len(MaxArrayIndex)
    /\ ~IndexLess(MaxArrayIndex, k)

\* where Object.entries lists a new key: an array index after the smaller
\* array indexes, any other key last
Insert(entries, k, v) ==
    IF IsArrayIndex(k)
    THEN LET n == Cardinality({i \in 1..Len(entries) :
                                  /\ IsArrayIndex(entries[i].k)
                                  /\ IndexLess(entries[i].k, k)})
         IN SubSeq(entries, 1, n) \o <<[k |-> k, v |-> v]>>
            \o SubSeq(entries, n + 1, Len(entries))
    ELSE Append(entries, [k |-> k, v |-> v])

\* CreateDataProperty, as JSON.parse and { ...obj } do it: the value of an own
\* key is replaced, a new key becomes an own key
Define(entries, k, v) ==
    IF Has(entries, k) THEN MapSet(entries, k, v) ELSE Insert(entries, k, v)

K_proto == <<"_", "_", "p", "r", "o", "t", "o", "_", "_">>

\* obj[k] = v: the value of an own key is replaced and a new key becomes an own
\* key, but "__proto__": that assignment goes to the setter of Object.prototype
\* and creates no own key; these are the own keys, and the prototype the
\* setter gives `properties`, the one object read after such an assignment,
\* is kept in propertiesProto
Put(entries, k, v) ==
    IF Has(entries, k) THEN MapSet(entries, k, v)
    ELSE IF k = K_proto THEN entries
    ELSE Insert(entries, k, v)

\* the object JSON.parse makes of the members of a JSON text, in their order
\* in the text
RECURSIVE ObjectFrom(_, _)
ObjectFrom(obj, members) ==
    IF members = <<>> THEN obj
    ELSE ObjectFrom(Define(obj, Head(members).k, Head(members).v), Tail(members))
ObjectOf(members) == ObjectFrom(<<>>, members)

\* Object.keys(obj)
Keys(entries) ==
    LET obj == ObjectOf(entries) IN [i \in 1..Len(obj) |-> obj[i].k]

\* the names every object inherits from Object.prototype
ObjectPrototype ==
    {<<"c", "o", "n", "s", "t", "r", "u", "c", "t", "o", "r">>, <<"_", "_", "p", "r", "o", "t", "o", "_", "_">>, <<"h", "a", "s", "O", "w", "n", "P", "r", "o", "p", "e", "r", "t", "y">>, <<"i", "s", "P", "r", "o", "t", "o", "t", "y", "p", "e", "O", "f">>,
     <<"p", "r", "o", "p", "e", "r", "t", "y", "I", "s", "E", "n", "u", "m", "e", "r", "a", "b", "l", "e">>, <<"t", "o", "L", "o", "c", "a", "l", "e", "S", "t", "r", "i", "n", "g">>, <<"t", "o", "S", "t", "r", "i", "n", "g">>, <<"v", "a", "l", "u", "e", "O", "f">>,
     <<"_", "_", "d", "e", "f", "i", "n", "e", "G", "e", "t", "t", "e", "r", "_", "_">>, <<"_", "_", "d", "e", "f", "i", "n", "e", "S", "e", "t", "t", "e", "r", "_", "_">>, <<"_", "_", "l", "o", "o", "k", "u", "p", "G", "e", "t", "t", "e", "r", "_", "_">>,
     <<"_", "_", "l", "o", "o", "k", "u", "p", "S", "e", "t", "t", "e", "r", "_", "_">>}

\* obj[k] is not undefined: k is an own key or an inherited name (the values
\* of the own keys are never undefined, and those inherited are objects)
HasMember(obj, k) == Has(obj, k) \/ k \in ObjectPrototype

\* String(obj[k]) for an inherited name k
InheritedString(k) ==
    IF k = K_proto THEN <<"[", "o", "b", "j", "e", "c", "t", " ", "O", "b", "j", "e", "c", "t", "]">>
    ELSE <<"f", "u", "n", "c", "t", "i", "o", "n", " ">> \o (IF k = <<"c", "o", "n", "s", "t", "r", "u", "c", "t", "o", "r">> THEN <<"O", "b", "j", "e", "c", "t">> ELSE k)
         \o <<"(", ")", " ", "{", " ", "[", "n", "a", "t", "i", "v", "e", " ", "c", "o", "d", "e", "]", " ", "}">>

----------------------------------------------------------------------------
\* Configuration

DocsDbId == <<"d", "0", "c", "5">>
RoadmapDbId == <<"a", "b", "1", "2">>
TasksDbId == <<"7", "a", "5", "c">>
OtherDbId == <<"f", "f", "f", "f">>

EnvFull ==
    [NOTION_KEY |-> <<"s", "e", "c", "r", "e", "t">>,
     NOTION_DATABASE_ID |-> DocsDbId,
     ROADMAP_DATABASE_ID |-> RoadmapDbId,
     TASK_TRACKER_DATABASE_ID |-> TasksDbId,
     SERVER_TOKEN |-> <<>>]
EnvNoKey == [EnvFull EXCEPT !.NOTION_KEY = <<>>]

Envs == {EnvFull, EnvNoKey}

\* a || b for strings
OrElse(a, b) == IF a # <<>> THEN a ELSE b

\* const dbSelector = (req.query?.db || req.body?.db || "").toString().toLowerCase()
dbSelector(request) == toLowerCase(OrElse(request.query, request.db))

getNotionDbId_Fallback(e, dbKey) ==
    OrElse(e.NOTION_DATABASE_ID, OrElse(e.TASK_TRACKER_DATABASE_ID, e.ROADMAP_DATABASE_ID))
\* function getNotionDbId(dbKey), for a string dbKey
getNotionDbId(e, dbKey) ==
    LET key == toLowerCase(dbKey) IN
    IF key \in {<<"d", "o", "c", "s">>, <<"d", "o", "c", "u", "m", "e", "n", "t", "s">>, <<"d", "o", "c", "u", "m", "e", "n", "t">>} THEN e.NOTION_DATABASE_ID
    ELSE IF key \in {<<"r", "o", "a", "d", "m", "a", "p">>, <<"r", "o", "a", "d">>} THEN e.ROADMAP_DATABASE_ID
    ELSE IF key \in {<<"t", "a", "s", "k", "s">>, <<"t", "a", "s", "k">>, <<"t", "r", "a", "c", "k", "e", "r">>} THEN e.TASK_TRACKER_DATABASE_ID
    ELSE OrElse(e.NOTION_DATABASE_ID,
                OrElse(e.TASK_TRACKER_DATABASE_ID, e.ROADMAP_DATABASE_ID))

\* no getNotionDbId call yet
GiPending == [done |-> FALSE, id |-> <<>>]
GiReturned(id) == [done |-> TRUE, id |-> id]

GiIdle ==
    /\ giKey = <<>>
    /\ giCalls = 0
    /\ giPrev = GiPending
    /\ giOut = GiPending

\* the configurations: each of the three database ids set or not
DbEnvs ==
    {[EnvFull EXCEPT !.NOTION_DATABASE_ID = d, !.ROADMAP_DATABASE_ID = r,
                     !.TASK_TRACKER_DATABASE_ID = t] :
        d \in {<<>>, DocsDbId}, r \in {<<>>, RoadmapDbId}, t \in {<<>>, TasksDbId}}

\* the keys asked for: the recognised ones in some spelling, none, and others
DbKeys ==
    {<<"d", "o", "c", "s">>, <<"D", "o", "c", "u", "m", "e", "n", "t", "s">>, <<"d", "o", "c", "u", "m", "e", "n", "t">>, <<"r", "o", "a", "d", "m", "a", "p">>, <<"R", "O", "A", "D">>, <<"t", "a", "s", "k", "s">>, <<"T", "a", "s", "k">>,
     <<"t", "r", "a", "c", "k", "e", "r">>, <<>>, <<"a", "u", "t", "o">>, <<"d", "o", "c">>, <<"r", "o", "a", "d", "m", "a", "p", "s">>, <<"t", "a", "s", "k", "s", " ">>}

\* one call getNotionDbId(giKey); the second call repeats the first
GiCall ==
    /\ giCalls < 2
    /\ giCalls' = giCalls + 1
    /\ giPrev' = giOut
    /\ giOut' = GiReturned(getNotionDbId(env, giKey))
    /\ giKey' = giKey

----------------------------------------------------------------------------
\* buildProp: one schema descriptor and one raw value to a property payload

\* a property descriptor of a database schema: its type, the database_id of a
\* relation (empty when absent) and the option names of a select-like type
Def(type, db, options) == [type |-> type, db |-> db, options |-> options]

\* a built property payload: text of title/rich_text/select/status/url, ids of
\* relation/people, elems of multi_select, n of number, b of checkbox
Payload(type, text, ids, elems, n, b) ==
    [type |-> type, text |-> text, ids |-> ids, elems |-> elems, n |-> n, b |-> b]
NoPayload == Payload("", <<>>, <<>>, <<>>, 0, FALSE)

Built(payload) ==
    [tag |-> "value", reason |-> "", payload |-> payload, available |-> <<>>, type |-> ""]
Skip(reason, available, type) ==
    [tag |-> "skip", reason |-> reason, payload |-> NoPayload,
     available |-> available, type |-> type]
Rejected(error) ==
    [tag |-> "error", reason |-> error, payload |-> NoPayload,
     available |-> <<>>, type |-> ""]
\* the call did not return: an exception left it
Raised(what) ==
    [tag |-> "throw", reason |-> what, payload |-> NoPayload,
     available |-> <<>>, type |-> ""]

\* options.some(o => o.toLowerCase() === name.toLowerCase())
HasOption(options, name) ==
    \E i \in 1..Len(options) : toLowerCase(options[i]) = toLowerCase(name)

\* s.includes("@")
IncludesAt(s) == \E i \in 1..Len(s) : s[i] = "@"

\* [x] when keep, [] otherwise
Maybe(keep, x) == IF keep THEN <<x>> ELSE <<>>

\* the ids pushed for the values of a people field
RECURSIVE PeopleIds(_, _)
PeopleIds(vals, idx) ==
    IF vals = <<>> THEN <<>>
    ELSE LET v == Head(vals)
             s == trim(v.s)
             here ==
                IF ~Truthy(v) THEN <<>>
                ELSE IF v.t = "str"
                THEN IF IncludesAt(s)
                     THEN Maybe(Has(idx.byEmail, toLowerCase(s)) ,
                                IF Has(idx.byEmail, toLowerCase(s))
                                THEN Get(idx.byEmail, toLowerCase(s)) ELSE <<>>)
                     ELSE <<s>>
                ELSE Maybe(v.id # <<>>, v.id)
         IN here \o PeopleIds(Tail(vals), idx)

\* the ids of a relation value: trimmed strings and the id of {id} objects,
\* falsy ones filtered out, each through toDashedUuid
RECURSIVE RelationIds(_)
RelationIds(vals) ==
    IF vals = <<>> THEN <<>>
    ELSE LET v == Head(vals)
             id == IF v.t = "str" THEN trim(v.s)
                   ELSE IF Truthy(v) /\ v.id # <<>> THEN v.id ELSE <<>>
         IN Maybe(id # <<>>, toDashedUuid(id)) \o RelationIds(Tail(vals))

\* arr.filter(v => options.some(o => o.toLowerCase() === String(v).toLowerCase()))
RECURSIVE ValidOptions(_, _)
ValidOptions(vals, options) ==
    IF vals = <<>> THEN <<>>
    ELSE Maybe(HasOption(options, ItemToString(Head(vals))), Head(vals))
         \o ValidOptions(Tail(vals), options)

\* String(u).split("?")[0]
RECURSIVE BeforeQuery(_)
BeforeQuery(s) ==
    IF s = <<>> \/ Head(s) = "?" THEN <<>>
    ELSE <<Head(s)>> \o BeforeQuery(Tail(s))

\* s.split("/").filter(Boolean).pop(): the last non-empty piece between
\* slashes, cur being the piece under way and last the one before it
RECURSIVE LastSegment(_, _, _)
LastSegment(s, cur, last) ==
    IF s = <<>> THEN (IF cur # <<>> THEN cur ELSE last)
    ELSE IF Head(s) = "/"
    THEN LastSegment(Tail(s), <<>>, IF cur # <<>> THEN cur ELSE last)
    ELSE LastSegment(Tail(s), Append(cur, Head(s)), last)

\* function inferNameFromUrl(u): an exception inside it gives "file"
inferNameFromUrl(u) ==
    IF ItemThrows(u) THEN <<"f", "i", "l", "e">>
    ELSE LET seg == OrElse(LastSegment(BeforeQuery(ItemToString(u)), <<>>, <<>>),
                           <<"f", "i", "l", "e">>)
         IN IF Len(seg) > 100 THEN SubSeq(seg, 1, 100) ELSE seg

\* { type: "external", name, external: { url } }
FileEntry(name, url) == [name |-> name, url |-> url]

\* v.name || inferNameFromUrl(url)
NameOr(v, url) ==
    IF Truthy(MemberOf(v, "name")) THEN MemberOf(v, "name")
    ELSE IStr(inferNameFromUrl(url))

\* the third shape of a file object: v.name && v.href, both through String
NameAndHref(v) == Truthy(MemberOf(v, "name")) /\ Truthy(MemberOf(v, "href"))

\* the entries pushed for one value of a files field
FilesOfOne(v) ==
    IF ~Truthy(v) THEN <<>>
    ELSE IF v.t = "str"
    THEN <<FileEntry(IStr(inferNameFromUrl(IStr(trim(v.s)))), IStr(trim(v.s)))>>
    ELSE IF v.t # "obj" THEN <<>>
    ELSE IF Truthy(MemberOf(MemberOf(v, "external"), "url"))
    THEN LET url == MemberOf(MemberOf(v, "external"), "url") IN
         <<FileEntry(NameOr(v, url), url)>>
    ELSE IF Truthy(MemberOf(v, "url"))
    THEN <<FileEntry(NameOr(v, MemberOf(v, "url")), MemberOf(v, "url"))>>
    ELSE IF NameAndHref(v)
    THEN <<FileEntry(IStr(ItemToString(MemberOf(v, "name"))),
                     IStr(ItemToString(MemberOf(v, "href"))))>>
    ELSE <<>>

\* String(v.name) or String(v.href) of line 1563 raises
FileThrows(v) ==
    /\ Truthy(v)
    /\ v.t = "obj"
    /\ ~Truthy(MemberOf(MemberOf(v, "external"), "url"))
    /\ ~Truthy(MemberOf(v, "url"))
    /\ NameAndHref(v)
    /\ (ItemThrows(MemberOf(v, "name")) \/ ItemThrows(MemberOf(v, "href")))

RECURSIVE FilesOf(_)
FilesOf(vals) ==
    IF vals = <<>> THEN <<>> ELSE FilesOfOne(Head(vals)) \o FilesOf(Tail(vals))

\* case "title": if (!value) return { error: "title_required" }
TitleGuard(value) == ~Truthy(value)

\* the kinds of buildProp's switch
BuiltKinds == {"title", "rich_text", "select", "multi_select", "status", "date",
               "number", "checkbox", "url", "people", "files", "relation"}

\* async function buildProp(propName, value), given the schema and the index of
\* the people directory
buildProp(schema, propName, value, idx) ==
    IF ~HasMember(schema, propName) THEN Skip("unknown_property", <<>>, "")
    \* def is what the schema object inherits: def.type is undefined
    ELSE IF ~Has(schema, propName) THEN Skip("unsupported_type", <<>>, "")
    ELSE LET def == Get(schema, propName) IN
    CASE def.type = "title" ->
            IF TitleGuard(value) THEN Rejected("title_required")
            ELSE IF StringThrows(value) THEN Raised("TypeError")
            ELSE Built(Payload("title", StringOf(value), <<>>, <<>>, 0, FALSE))
      [] def.type = "rich_text" ->
            IF StringThrows(value) THEN Raised("TypeError")
            ELSE Built(Payload("rich_text", StringOf(value), <<>>, <<>>, 0, FALSE))
      [] def.type \in {"select", "status"} ->
            IF StringThrows(value) THEN Raised("TypeError")
            ELSE IF ~HasOption(def.options, StringOf(value))
            THEN Skip("unknown_option", def.options, "")
            ELSE Built(Payload(def.type, StringOf(value), <<>>, <<>>, 0, FALSE))
      [] def.type = "multi_select" ->
            \* options.some calls String(v) only when there is an option
            IF def.options # <<>>
               /\ \E i \in 1..Len(AsArray(value)) : ItemThrows(AsArray(value)[i])
            THEN Raised("TypeError")
            ELSE LET valid == ValidOptions(AsArray(value), def.options) IN
                 IF valid = <<>> THEN Skip("unknown_option", def.options, "")
                 ELSE Built(Payload("multi_select", <<>>, <<>>, valid, 0, FALSE))
      [] def.type = "date" ->
            \* elems is <<start, end, time_zone>>, undefined for a member that
            \* is not sent
            IF value.t = "str"
            THEN Built(Payload("date", <<>>, <<>>, <<IStr(value.s), IUndef, IUndef>>,
                               0, FALSE))
            ELSE IF Truthy(value)
                    /\ (Truthy(MemberOf(value, "start")) \/ Truthy(MemberOf(value, "end")))
            THEN Built(Payload("date", <<>>, <<>>,
                               <<MemberOf(value, "start"), MemberOf(value, "end"),
                                 MemberOf(value, "time_zone")>>, 0, FALSE))
            ELSE Skip("invalid_date", <<>>, "")
      [] def.type = "number" ->
            IF value.t # "num" THEN Skip("invalid_number", <<>>, "")
            ELSE Built(Payload("number", <<>>, <<>>, <<>>, value.n, FALSE))
      [] def.type = "checkbox" ->
            Built(Payload("checkbox", <<>>, <<>>, <<>>, 0, Truthy(value)))
      [] def.type = "url" ->
            IF StringThrows(value) THEN Raised("TypeError")
            ELSE Built(Payload("url", StringOf(value), <<>>, <<>>, 0, FALSE))
      [] def.type = "files" ->
            IF \E i \in 1..Len(AsArray(value)) : FileThrows(AsArray(value)[i])
            THEN Raised("TypeError")
            ELSE LET files == FilesOf(AsArray(value)) IN
                 IF files = <<>> THEN Skip("invalid_files", <<>>, "")
                 ELSE Built(Payload("files", <<>>, <<>>, files, 0, FALSE))
      [] def.type = "people" ->
            LET people == PeopleIds(AsArray(value), idx) IN
            IF people = <<>> THEN Skip("unknown_people", <<>>, "")
            ELSE Built(Payload("people", <<>>, people, <<>>, 0, FALSE))
      [] def.type = "relation" ->
            LET rel == RelationIds(AsArray(value)) IN
            IF rel = <<>> THEN Skip("invalid_relation", <<>>, "")
            ELSE Built(Payload("relation", <<>>, rel, <<>>, 0, FALSE))
      [] OTHER -> Skip("unsupported_type", <<>>, def.type)

----------------------------------------------------------------------------
\* The request and the response of /upsert_page

\* req.body: db, page_id, title, fields and content (null, or with a
\* description, the entries of content.meta, none when there is no meta, and
\* the values of content.blocks, content.subtasks and content.files)
BodyOf(query, db, page_id, title, given, fields, alias, content) ==
    [query |-> query, db |-> db, page_id |-> page_id, title |-> title,
     given |-> given, fields |-> fields, properties |-> alias,
     content |-> content]
\* a request without a db in its query, with fields and without properties
Body(db, page_id, title, fields, content) ==
    BodyOf(<<>>, db, page_id, title, TRUE, fields, <<>>, content)
NoContent ==
    [present |-> FALSE, description |-> <<>>, meta |-> <<>>, blocks |-> VUndef,
     subtasks |-> VUndef, files |-> VUndef]
ContentOf(description, meta, blocks, subtasks, files) ==
    [present |-> TRUE, description |-> description, meta |-> meta,
     blocks |-> blocks, subtasks |-> subtasks, files |-> files]
Content(description, meta) == ContentOf(description, meta, VUndef, VUndef, VUndef)
NoBody == Body(<<>>, <<>>, VUndef, <<>>, NoContent)

\* what res.status(...).json(...) was given; sent is FALSE until then
NoRes ==
    [sent |-> FALSE, status |-> 0, ok |-> FALSE, simulating |-> FALSE,
     error |-> "", field |-> <<>>, mode |-> "", page_id |-> <<>>,
     hasSuggestions |-> FALSE, suggestions |-> <<>>, unresolved |-> <<>>,
     skipped |-> <<>>, skippedIsNull |-> FALSE, upstream |-> -1]

\* globalThis.__solUsersIndex before the first people field
NoUsersIndex == [set |-> FALSE, byEmail |-> <<>>]

UpIdle ==
    /\ pc = "idle"
    /\ req = NoBody
    /\ reqBody = NoBody
    /\ props = <<>>
    /\ normalizedFields = <<>>
    /\ fi = 0
    /\ ai = 0
    /\ out = <<>>
    /\ nullTitles = <<>>
    /\ unresolved = <<>>
    /\ properties = <<>>
    /\ propertiesProto = NoPayload
    /\ skips = <<>>
    /\ usersIndex = NoUsersIndex
    /\ upsertCreated = 0
    /\ calls = <<>>
    /\ writePayload = <<>>
    /\ res = NoRes
    /\ statuses = <<>>
    /\ lookups = <<>>
    /\ suggestDb = <<>>
    /\ writeTarget = <<>>
    /\ schemaResp = <<>>

\* what is kept of a first request: the schema it fetched, what the resolver
\* answered, its remote calls, the write it sent and the answer it gave
First(done, schema, resolved, issued, payload, target, answer, ended, index) ==
    [done |-> done, props |-> schema, lookups |-> resolved, calls |-> issued,
     payload |-> payload, target |-> target, res |-> answer, statuses |-> ended,
     index |-> index]
NoFirst == First(FALSE, <<>>, <<>>, <<>>, <<>>, <<>>, NoRes, <<>>, NoUsersIndex)

RpIdle ==
    /\ rpRun = 0
    /\ rpBody = NoBody
    /\ rpFirst = NoFirst

\* req.headers of a request without credentials
NoHeaders == [xSolToken |-> <<>>, authorization |-> <<>>]

AuIdle ==
    /\ auPc = "idle"
    /\ auRoute = ""
    /\ auHeaders = NoHeaders
    /\ auRes = 0
    /\ auEntered = FALSE

\* req.body of /delete_page: page_id, db and title are strings ("" when absent)
DeleteBodyOf(query, page_id, db, title, dry_run) ==
    [query |-> query, page_id |-> page_id, db |-> db, title |-> title,
     dry_run |-> dry_run]
\* a request without a db in its query
DeleteBody(page_id, db, title, dry_run) == DeleteBodyOf(<<>>, page_id, db, title, dry_run)
NoDeleteBody == DeleteBody(<<>>, <<>>, <<>>, VUndef)

\* what the /delete_page handler answered; sent is FALSE until it did
NoDeleteRes ==
    [sent |-> FALSE, status |-> 0, ok |-> FALSE, simulating |-> FALSE, error |-> "",
     dry_run |-> FALSE, action |-> "", archived |-> FALSE, page_id |-> <<>>,
     upstream |-> -1]

DlIdle ==
    /\ dlPc = "idle"
    /\ dlReq = NoDeleteBody
    /\ dlPageId = <<>>
    /\ dlCalls = <<>>
    /\ dlRes = NoDeleteRes
    /\ dlArchived = {}

----------------------------------------------------------------------------
\* The inputs of the model: request bodies, remote schemas, remote answers

\* the most fields a request body carries
MaxFields == 2

K_Name == <<"N", "a", "m", "e">>
K_Roadmap == <<"R", "o", "a", "d", "m", "a", "p">>
K_Parent == <<"P", "a", "r", "e", "n", "t">>
K_Status == <<"S", "t", "a", "t", "u", "s">>
K_Points == <<"P", "o", "i", "n", "t", "s">>
K_Calc == <<"C", "a", "l", "c">>
K_Owner == <<"O", "w", "n", "e", "r">>

\* a record identifier without dashes, as a caller may give it
RawId == Rep("c", 32)
\* the id member of an {id} object given by a caller
ObjId == toDashedUuid(Rep("D", 32))
\* the identifier of the page the resolver finds
FoundId == toDashedUuid(Rep("b", 32))
\* the identifier of a user of the workspace
UserId == toDashedUuid(Rep("e", 32))
\* the identifier the remote store answers a create or an update with
PageIdOut == toDashedUuid(Rep("1", 32))

Field(k, v) == [k |-> k, v |-> v]

\* { toString: 1 }, an object that String() cannot convert: as an element and
\* as a value
Unprintable == IObjM(<<>>, <<Field("toString", INum(1))>>)
UnprintableValue == VObjM(<<>>, <<Field("toString", INum(1))>>)

FieldChoices ==
    {Field(K_Name, VStr(<<>>)), Field(K_Name, VStr(<<"T", "1">>)),
     Field(K_Roadmap, VStr(<<"P", "1">>)), Field(K_Roadmap, VStr(RawId)),
     Field(K_Roadmap, VArr(<<IStr(<<"P", "1">>), IStr(<<"P", "2">>)>>)),
     Field(K_Roadmap, VArr(<<IObj(ObjId), IStr(<<"P", "1">>)>>)),
     Field(K_Parent, VStr(<<"P", "1">>)),
     Field(K_Status, VStr(<<"O", "P", "E", "N">>)), Field(K_Status, VStr(<<"z", "z", "z">>)),
     Field(K_Points, VNum(3)), Field(K_Points, VStr(<<"3">>)),
     Field(K_Calc, VStr(<<"x">>)),
     Field(K_Owner, VStr(<<"a", "@", "x">>))}

\* the lists of at most n fields with distinct keys
RECURSIVE FieldLists(_)
FieldLists(n) ==
    IF n = 0 THEN {<<>>}
    ELSE LET prev == FieldLists(n - 1) IN
         prev \cup {Append(x[1], x[2]) :
                      x \in {y \in prev \X FieldChoices : ~Has(y[1], y[2].k)}}

K_page_id == <<"p", "a", "g", "e", "_", "i", "d">>
K_id == <<"i", "d">>

\* content.meta with a page_id; with an id and a property; with a blank page_id
\* before an id
MetaPageId == <<Field(K_page_id, VStr(<<"p", "g", "2">>))>>
MetaIdAndPoints == <<Field(K_id, VStr(<<"p", "g", "3">>)), Field(K_Points, VNum(5))>>
MetaBlankPageId == <<Field(K_page_id, VStr(<<" ">>)), Field(K_id, VStr(<<"p", "g", "3">>))>>

MetaContents ==
    {Content(<<>>, MetaPageId), Content(<<"h", "i">>, MetaIdAndPoints),
     Content(<<>>, MetaBlankPageId)}

\* content.meta with a page_id that String() cannot convert
MetaUnprintable ==
    <<Field(K_page_id, UnprintableValue), Field(K_Status, VStr(<<"O", "p", "e", "n">>))>>

\* fields named like a member of Object.prototype, or like an array index and
\* written after another field
SpecialFieldLists ==
    {<<Field(<<"c", "o", "n", "s", "t", "r", "u", "c", "t", "o", "r">>, VStr(<<"x">>))>>,
     <<Field(K_proto, VStr(<<"x">>)), Field(K_Points, VNum(3))>>,
     <<Field(K_Name, VStr(<<"T", "1">>)), Field(<<"1">>, VStr(<<"y">>))>>}

\* contents by the blocks they give: two paragraphs, none, a paragraph of
\* content.blocks, a to_do of content.subtasks, a file and its name, and an
\* element of content.blocks that cannot be converted
BlockContents ==
    {Content(<<"a", "\n", "b">>, <<>>), Content(<<"\n">>, <<>>),
     ContentOf(<<>>, <<>>,
               VArr(<<IObjM(<<>>, <<Field("type", IStr(<<"p", "a", "r", "a", "g", "r", "a", "p", "h">>)),
                                    Field("text", IStr(<<"x">>))>>),
                      IObjM(<<>>, <<Field("type", IStr(<<"z", "z", "z">>))>>)>>),
               VUndef, VUndef),
     ContentOf(<<>>, <<>>, VUndef,
               VArr(<<IObjM(<<>>, <<Field("text", IStr(<<"s">>))>>), IStr(<<"t">>)>>),
               VUndef),
     ContentOf(<<>>, <<>>, VUndef, VUndef, VArr(<<IStr(<<"h", ":", "/", "/", "x", "/", "a">>)>>)),
     ContentOf(<<>>, <<>>, VArr(<<IObjM(<<>>, <<Field("text", Unprintable)>>)>>),
               VUndef, VUndef)}

\* the request bodies with these fields and contents, with a page_id of white
\* space, with a title that String() cannot convert, with such a page_id in
\* content.meta, without a title and with a field named "__proto__" or "",
\* with a db in the query, and with properties in the place of fields
SpecialBodies ==
    {Body(<<"t", "a", "s", "k", "s">>, <<>>, VUndef, fields, NoContent) :
        fields \in {<<Field(K_proto, VStr(<<"x">>))>>, <<Field(<<>>, VStr(<<"e">>))>>}}
    \cup
    {BodyOf(<<"r", "o", "a", "d", "m", "a", "p">>, <<"t", "a", "s", "k", "s">>, <<>>, VStr(<<"T", "0">>), TRUE,
            <<Field(K_Points, VNum(3))>>, <<>>, NoContent),
     BodyOf(<<>>, <<"t", "a", "s", "k", "s">>, <<>>, VStr(<<"T", "0">>), FALSE,
            <<>>, <<Field(K_Points, VNum(3))>>, NoContent)}
    \cup
    {Body(<<"t", "a", "s", "k", "s">>, pid, VStr(<<"T", "0">>), fields, NoContent) :
        pid \in {<<>>, <<"p", "g", "1">>}, fields \in SpecialFieldLists}
    \cup
    {Body(<<"t", "a", "s", "k", "s">>, pid, VStr(<<"T", "0">>), <<>>, content) :
        pid \in {<<"\n">>, <<"p", "g", "1">>}, content \in BlockContents}
    \cup
    {Body(<<"t", "a", "s", "k", "s">>, <<>>, title, fields, content) :
        title \in {UnprintableValue},
        fields \in {<<>>, <<Field(K_Points, VNum(3))>>},
        content \in {NoContent}}
    \cup
    {Body(<<"t", "a", "s", "k", "s">>, <<>>, title, fields, content) :
        title \in {VStr(<<"T", "0">>)},
        fields \in {<<>>, <<Field(K_Points, VNum(3))>>},
        content \in {Content(<<>>, MetaUnprintable)}}

\* the request bodies: those without content.meta, those with it (and one
\* field less), and the special ones
Bodies ==
    SpecialBodies \cup
    {Body(db, pid, title, fields, content) :
        db \in {<<"t", "a", "s", "k", "s">>},
        pid \in {<<>>, <<"p", "g", "1">>},
        title \in {VUndef, VStr(<<"T", "0">>)},
        fields \in FieldLists(MaxFields),
        content \in {NoContent, Content(<<"h", "i">>, <<>>)}}
    \cup
    {Body(db, pid, title, fields, content) :
        db \in {<<"t", "a", "s", "k", "s">>},
        pid \in {<<>>, <<"p", "g", "1">>},
        title \in {VUndef, VStr(<<"T", "0">>)},
        fields \in FieldLists(MaxFields - 1),
        content \in MetaContents}

SchemaTasks ==
    <<Field(K_Name, Def("title", <<>>, <<>>)),
      Field(K_Roadmap, Def("relation", <<"A", "B", "-", "1", "2">>, <<>>)),
      Field(K_Parent, Def("relation", TasksDbId, <<>>)),
      Field(K_Status, Def("select", <<>>, <<<<"O", "p", "e", "n">>, <<"C", "l", "o", "s", "e", "d">>>>)),
      Field(K_Points, Def("number", <<>>, <<>>)),
      Field(K_Calc, Def("formula", <<>>, <<>>)),
      Field(K_Owner, Def("people", <<>>, <<>>))>>
SchemaPlain ==
    <<Field(K_Name, Def("title", <<>>, <<>>)),
      Field(K_Status, Def("status", <<>>, <<<<"O", "p", "e", "n">>>>)),
      Field(K_Points, Def("rich_text", <<>>, <<>>))>>
SchemaNoTitle ==
    <<Field(K_Roadmap, Def("relation", <<>>, <<>>)),
      Field(K_Status, Def("select", <<>>, <<<<"O", "p", "e", "n">>>>))>>
SchemaOtherRel ==
    <<Field(K_Name, Def("title", <<>>, <<>>)),
      Field(K_Roadmap, Def("relation", OtherDbId, <<>>)),
      Field(K_Points, Def("number", <<>>, <<>>))>>

\* a title property named like the member of a rich_text value, beside a
\* property named "__proto__"
SchemaProto ==
    <<Field(<<"r", "i", "c", "h", "_", "t", "e", "x", "t">>, Def("title", <<>>, <<>>)),
      Field(K_proto, Def("rich_text", <<>>, <<>>))>>
\* a title property of the empty name
SchemaEmptyName ==
    <<Field(<<>>, Def("title", <<>>, <<>>)),
      Field(K_Points, Def("number", <<>>, <<>>))>>

\* the property sets a schema fetch can return
Schemas ==
    {SchemaTasks, SchemaPlain, SchemaNoTitle, SchemaOtherRel, SchemaProto, SchemaEmptyName}

\* what one doNotion call of the handler ends with: a response (200) or a
\* thrown error, of a fatal status (404) or of exhausted retries (429)
RemoteStatuses == {200, 404, 429}

\* what resolveTitleToId returns: a page id, or null (the empty string here)
ResolverResults == {<<>>, FoundId}

\* how one resolveTitleToId call ends: with a result when its requests all
\* succeeded (upstream 200), with null when one of them threw (catch: return null)
ResolverOutcomes ==
    {[id |-> id, upstream |-> 200] : id \in ResolverResults}
    \cup {[id |-> <<>>, upstream |-> status] : status \in RemoteStatuses \ {200}}

\* the people directory listAllUsers builds
Directory == [set |-> TRUE, byEmail |-> <<Field(<<"a", "@", "x">>, UserId)>>]

\* the titles the suggestions query can return
SuggestionLists == {<<>>, <<<<"P", "9">>>>}

----------------------------------------------------------------------------
\* resolveTitleToId: one action per request of the three tiers

\* a page of a query or search response: its id, the database_id of its parent
\* (empty when the parent is no database) and the plain text of its title
Page(id, parent, title) == [id |-> id, parent |-> parent, title |-> title]
\* let match, while undefined
NoPage == Page(<<>>, <<>>, <<>>)

\* a request of the call, its status, and the id of the first result ("" when
\* there was none)
Request(op, status, found) == [op |-> op, status |-> status, found |-> found]

RsPending == [kind |-> "pending", id |-> <<>>]
\* return match?.id || null, and the return null of the catch block
RsReturned(id) == [kind |-> "return", id |-> id]

\* (q.data?.results || [])[0]
FirstOf(results) == IF results = <<>> THEN NoPage ELSE results[1]

\* (s.data?.results || []).filter(p => pid && normId(pid) === normId(dbId))
Candidates(results, dbId) ==
    SelectSeq(results, LAMBDA p : p.parent # <<>> /\ normId(p.parent) = normId(dbId))

\* t.toLowerCase() === String(titleStr).toLowerCase(), t the trimmed title
TitleEquals(p, titleStr) == toLowerCase(trim(p.title)) = toLowerCase(titleStr)

\* for (const p of candidates) { if (...) { match = p; break; } }
RECURSIVE FirstTitled(_, _)
FirstTitled(candidates, titleStr) ==
    IF candidates = <<>> THEN NoPage
    ELSE IF TitleEquals(Head(candidates), titleStr) THEN Head(candidates)
    ELSE FirstTitled(Tail(candidates), titleStr)

SearchMatch_FirstCandidate(results, dbId, titleStr) == FirstOf(Candidates(results, dbId))
\* lines 915-924: the match of the global search
SearchMatch(results, dbId, titleStr) ==
    LET candidates == Candidates(results, dbId)
        titled == FirstTitled(candidates, titleStr)
    IN IF titled # NoPage THEN titled ELSE FirstOf(candidates)

RsIdle ==
    /\ rsPc = "idle"
    /\ rsDb = <<>>
    /\ rsTitle = <<>>
    /\ rsTitleProp = <<>>
    /\ rsMatch = NoPage
    /\ rsCalls = <<>>
    /\ rsSeen = <<>>
    /\ rsResult = RsPending

\* the most pages a response of the remote store carries
MaxResults == 3

\* identifiers of the pages of the remote store
PageA == toDashedUuid(Rep("a", 32))
PageB == FoundId
PageC == toDashedUuid(Rep("3", 32))
PageD == toDashedUuid(Rep("4", 32))
PageE == toDashedUuid(Rep("5", 32))
PageF == toDashedUuid(Rep("6", 32))

\* the pages the remote store can answer with: three of the roadmap database
\* (one with a title in another case and a trailing blank, and its parent id
\* in another spelling; one with the exact title; one with another title), one
\* of another database, one of the tasks database and one whose parent is no
\* database
RemotePages ==
    {Page(PageA, <<"A", "B", "-", "1", "2">>, <<"p", "1", " ">>), Page(PageB, RoadmapDbId, <<"P", "1">>),
     Page(PageF, RoadmapDbId, <<"Z", "e", "d">>),
     Page(PageC, OtherDbId, <<"P", "1">>), Page(PageD, TasksDbId, <<"Z", "e", "d">>),
     Page(PageE, <<>>, <<"P", "1">>)}

\* the lists of at most n distinct pages
RECURSIVE PageLists(_)
PageLists(n) ==
    IF n = 0 THEN {<<>>}
    ELSE LET prev == PageLists(n - 1) IN
         prev \cup {Append(x[1], x[2]) :
                      x \in {y \in prev \X RemotePages :
                               \A i \in 1..Len(y[1]) : y[1][i] # y[2]}}

\* the results of a query of database dbId: pages of that database
QueryResults(dbId) ==
    {l \in PageLists(MaxResults) : \A i \in 1..Len(l) : normId(l[i].parent) = normId(dbId)}

\* the titles asked for
LookupTitles == {<<"P", "1">>, <<"z", "e", "d">>}

\* lines 880-887: the schema of the database and its title property
RsSchema ==
    /\ rsPc = "schema"
    /\ \E status \in RemoteStatuses :
          /\ rsCalls' = Append(rsCalls, Request("GET_DB", status, <<>>))
          /\ IF status # 200
             THEN /\ rsResult' = RsReturned(<<>>)
                  /\ rsPc' = "done"
                  /\ rsTitleProp' = rsTitleProp
             ELSE \E titleProp \in {<<>>, K_Name} :
                     /\ rsTitleProp' = titleProp
                     /\ IF titleProp = <<>>
                        THEN rsResult' = RsReturned(<<>>) /\ rsPc' = "done"
                        ELSE rsResult' = rsResult /\ rsPc' = "exact"
    /\ UNCHANGED <<rsDb, rsTitle, rsMatch, rsSeen>>

\* where the call goes after a query: past the later tiers with a match
AfterQuery(match, nextTier) == IF match # NoPage THEN "done" ELSE nextTier

\* lines 889-894: the query { title: { equals: titleStr } }, page_size 1
RsExact ==
    /\ rsPc = "exact"
    /\ \E status \in RemoteStatuses :
          IF status # 200
          THEN /\ rsCalls' = Append(rsCalls, Request("QUERY_EQUALS", status, <<>>))
               /\ rsResult' = RsReturned(<<>>)
               /\ rsPc' = "done"
               /\ rsMatch' = rsMatch
          ELSE \E results \in {l \in QueryResults(rsDb) : Len(l) <= 1} :
                  /\ rsCalls' = Append(rsCalls,
                                       Request("QUERY_EQUALS", status, FirstOf(results).id))
                  /\ rsMatch' = FirstOf(results)
                  /\ rsPc' = AfterQuery(rsMatch', "contains")
                  /\ rsResult' = IF rsMatch' # NoPage THEN RsReturned(rsMatch'.id)
                                 ELSE rsResult
    /\ UNCHANGED <<rsDb, rsTitle, rsTitleProp, rsSeen>>

\* lines 896-903: the query { title: { contains: titleStr } }, page_size 5
RsContains ==
    /\ rsPc = "contains"
    /\ \E status \in RemoteStatuses :
          IF status # 200
          THEN /\ rsCalls' = Append(rsCalls, Request("QUERY_CONTAINS", status, <<>>))
               /\ rsResult' = RsReturned(<<>>)
               /\ rsPc' = "done"
               /\ rsMatch' = rsMatch
          ELSE \E results \in QueryResults(rsDb) :
                  /\ rsCalls' = Append(rsCalls,
                                       Request("QUERY_CONTAINS", status, FirstOf(results).id))
                  /\ rsMatch' = FirstOf(results)
                  /\ rsPc' = AfterQuery(rsMatch', "search")
                  /\ rsResult' = IF rsMatch' # NoPage THEN RsReturned(rsMatch'.id)
                                 ELSE rsResult
    /\ UNCHANGED <<rsDb, rsTitle, rsTitleProp, rsSeen>>

\* lines 905-926: the global search, filtered to the database
RsSearch ==
    /\ rsPc = "search"
    /\ \E status \in RemoteStatuses :
          IF status # 200
          THEN /\ rsCalls' = Append(rsCalls, Request("SEARCH", status, <<>>))
               /\ rsResult' = RsReturned(<<>>)
               /\ UNCHANGED <<rsMatch, rsSeen>>
          ELSE \E results \in PageLists(MaxResults) :
                  /\ rsCalls' = Append(rsCalls, Request("SEARCH", status, FirstOf(results).id))
                  /\ rsSeen' = results
                  /\ rsMatch' = SearchMatch(results, rsDb, rsTitle)
                  /\ rsResult' = RsReturned(rsMatch'.id)
    /\ rsPc' = "done"
    /\ UNCHANGED <<rsDb, rsTitle, rsTitleProp>>

----------------------------------------------------------------------------
\* The people index under concurrent requests: each request has a people field
\* and reaches the people case of buildProp; what runs between two awaits runs
\* without interruption.

\* the most requests in flight
MaxRequests == 2
PeRequests == 1..MaxRequests

\* for (let i = 0; i < 10; i++)
MaxUserPages == 10

\* a user of a GET /v1/users page: id and person.email (empty when absent)
User(id, email) == [id |-> id, email |-> email]
\* the results a page can carry
UserPages ==
    {<<>>, <<User(UserId, <<"A", "@", "x">>)>>, <<User(ObjId, <<>>), User(UserId, <<"a", "@", "x">>)>>}

\* results.forEach(u => { ...; if (email) byEmail.set(email.toLowerCase(), u) })
RECURSIVE AddUsers(_, _)
AddUsers(byEmail, results) ==
    IF results = <<>> THEN byEmail
    ELSE AddUsers(IF Head(results).email # <<>>
                  THEN MapSet(byEmail, toLowerCase(Head(results).email),
                              Head(results).id)
                  ELSE byEmail,
                  Tail(results))

PeIdle ==
    /\ pePc = [r \in PeRequests |-> "idle"]
    /\ pePage = [r \in PeRequests |-> 0]
    /\ peAcc = [r \in PeRequests |-> <<>>]
    /\ peUsed = [r \in PeRequests |-> NoUsersIndex]
    /\ peBuilt = <<>>

\* if (!globalThis.__solUsersIndex)
IndexMissing == ~usersIndex.set

\* lines 1516-1518 up to the first await: the index is tested and, when it is
\* not there, listAllUsers is called and issues its first GET /v1/users;
\* otherwise lines 1520-1537 go on with the index at once
PeCheck(r) ==
    /\ pePc[r] = "idle"
    /\ IF IndexMissing
       THEN /\ pePc' = [pePc EXCEPT ![r] = "fetching"]
            /\ pePage' = [pePage EXCEPT ![r] = 1]
            /\ peUsed' = peUsed
       ELSE /\ pePc' = [pePc EXCEPT ![r] = "done"]
            /\ peUsed' = [peUsed EXCEPT ![r] = usersIndex]
            /\ pePage' = pePage
    /\ UNCHANGED <<peAcc, peBuilt, usersIndex>>

\* lines 938-947 and 1518-1520: the answer to one GET /v1/users; an error leaves
\* buildProp as an exception, a page with has_more and next_cursor is followed
\* by the next GET, and after the last page the index is assigned and read
PeAnswer(r, status, results, more) ==
    /\ pePc[r] = "fetching"
    /\ IF status # 200
       THEN /\ pePc' = [pePc EXCEPT ![r] = "failed"]
            /\ UNCHANGED <<pePage, peAcc, peUsed, peBuilt, usersIndex>>
       ELSE LET byEmail == AddUsers(peAcc[r], results) IN
            IF more /\ pePage[r] < MaxUserPages
            THEN /\ pePage' = [pePage EXCEPT ![r] = pePage[r] + 1]
                 /\ peAcc' = [peAcc EXCEPT ![r] = byEmail]
                 /\ UNCHANGED <<pePc, peUsed, peBuilt, usersIndex>>
            ELSE /\ usersIndex' = [set |-> TRUE, byEmail |-> byEmail]
                 /\ peBuilt' = Append(peBuilt, usersIndex')
                 /\ peUsed' = [peUsed EXCEPT ![r] = usersIndex']
                 /\ peAcc' = [peAcc EXCEPT ![r] = byEmail]
                 /\ pePc' = [pePc EXCEPT ![r] = "done"]
                 /\ pePage' = pePage

\* the answer to the GET /v1/users of request r: a status, and with 200 the
\* results of the page and whether has_more and next_cursor are set
PePage(r) ==
    \E status \in RemoteStatuses :
        IF status # 200 THEN PeAnswer(r, status, <<>>, FALSE)
        ELSE \E results \in UserPages, more \in BOOLEAN :
                PeAnswer(r, status, results, more)

----------------------------------------------------------------------------
\* One buildProp call on one property descriptor and one value

\* no buildProp result yet
NotBuilt ==
    [tag |-> "none", reason |-> "", payload |-> NoPayload, available |-> <<>>,
     type |-> ""]

BpIdle ==
    /\ bpDef = Def("", <<>>, <<>>)
    /\ bpValue = VUndef
    /\ bpBuilt = NotBuilt

\* the most elements an array value carries
MaxElems == 2

OptionLists == {<<<<"O", "p", "e", "n">>, <<"C", "l", "o", "s", "e", "d">>>>, <<<<"D", "o", "n", "e">>>>, <<<<"U+00C9", "t", "U+00E9">>>>}

BpDefs ==
    {Def(type, <<>>, options) :
        type \in {"select", "status", "multi_select"}, options \in OptionLists}
    \cup {Def(type, <<>>, <<>>) :
            type \in {"title", "rich_text", "number", "formula", "date", "checkbox",
                      "url", "people", "files", "relation", "multi_select"}}

BpElems == {IStr(<<"O", "P", "E", "N">>), IStr(<<"C", "l", "o", "s", "e", "d">>), IStr(<<"z", "z", "z">>), INum(7), Unprintable}

\* objects given for a date or a files property
BpObjects ==
    {<<Field("start", IStr(<<"2", "0", "2", "6", "-", "0", "1", "-", "0", "1">>))>>,
     <<Field("end", IStr(<<"2", "0", "2", "6", "-", "0", "2", "-", "0", "1">>)), Field("time_zone", IStr(<<"U", "T", "C">>))>>,
     <<Field("time_zone", IStr(<<"U", "T", "C">>))>>,
     <<Field("external", IObjM(<<>>, <<Field("url", IStr(<<"h", ":", "/", "/", "x", "/", "a", ".", "p", "n", "g", "?", "v", "=", "1">>))>>))>>,
     <<Field("url", IStr(<<"h", ":", "/", "/", "x", "/", "b", "/">>)), Field("name", IStr(<<"p", "i", "c">>))>>,
     <<Field("url", IStr(<<"?", "q">>))>>,
     <<Field("name", IStr(<<"d", "o", "c">>)), Field("href", IStr(<<"h", ":", "/", "/", "x", "/", "c">>))>>,
     <<Field("name", IStr(<<"d", "o", "c">>)), Field("href", Unprintable)>>,
     <<Field("name", IStr(<<"d", "o", "c">>))>>,
     <<Field("toString", INum(1))>>}

RECURSIVE ElemLists(_)
ElemLists(n) ==
    IF n = 0 THEN {<<>>}
    ELSE LET prev == ElemLists(n - 1) IN
         prev \cup {Append(x[1], x[2]) : x \in prev \X BpElems}

BpValues ==
    {VStr(<<"O", "P", "E", "N">>), VStr(<<"O", "p", "e", "n">>), VStr(<<"c", "l", "o", "s", "e", "d">>), VStr(<<"z", "z", "z">>), VStr(<<>>), VNum(7)}
    \cup {VArr(l) : l \in ElemLists(MaxElems)}
    \cup {VObjM(<<>>, m) : m \in BpObjects}
    \cup {VStr(<<"2", "0", "2", "6", "-", "0", "3", "-", "0", "1">>), VStr(<<"U+00E9", "T", "U+00C9">>)}
    \cup {VStr(<<" ", "h", ":", "/", "/", "x", "/", "d", ".", "t", "x", "t", " ">>), VStr(<<"a", "@", "x">>), VStr(<<"n", "o", "b", "o", "d", "y", "@", "x">>), VObj(ObjId), VBool(TRUE), VUndef,
          VNum(0)}

\* One call const built = await buildProp(k, v), for the property k of a schema
\* of one property; the call is the first request of the process.

\* lines 1516-1518 of a people property, up to the first await
BpCheck ==
    /\ bpBuilt = NotBuilt
    /\ bpDef.type = "people"
    /\ PeCheck(1)
    /\ UNCHANGED bpVars

\* the answer to one GET /v1/users of listAllUsers
BpPage ==
    /\ bpBuilt = NotBuilt
    /\ PePage(1)
    /\ UNCHANGED bpVars

\* the call returns, or the failure of a GET /v1/users leaves it as an
\* exception; a people property builds from the index it read at line 1520,
\* in the stretch that tested or assigned it
BpBuild ==
    /\ bpBuilt = NotBuilt
    /\ bpDef.type = "people" => pePc[1] \in {"done", "failed"}
    /\ bpBuilt' = IF bpDef.type = "people" /\ pePc[1] = "failed"
                  THEN Raised("upstream")
                  ELSE buildProp(<<Field(K_Status, bpDef)>>, K_Status, bpValue,
                                 IF bpDef.type = "people" THEN peUsed[1] ELSE usersIndex)
    /\ UNCHANGED <<bpDef, bpValue, usersIndex, peVars>>

----------------------------------------------------------------------------
\* requireSolAuth, the middleware of the mutating routes

\* process.env.SERVER_TOKEN when it is set
Token == <<"t", "o", "k">>
EnvToken == [EnvFull EXCEPT !.SERVER_TOKEN = Token]

BearerPrefix == <<"B", "e", "a", "r", "e", "r", " ">>

\* s.startsWith(prefix)
startsWith(s, prefix) == Len(s) >= Len(prefix) /\ SubSeq(s, 1, Len(prefix)) = prefix
\* s.slice(n)
slice(s, n) == SubSeq(s, n + 1, Len(s))

requireSolAuth_Open(e, headers) == "next"
\* function requireSolAuth(req, res, next): "next" for next(), "401" for
\* res.status(401).json({ ok: false, error: "unauthorized" })
requireSolAuth(e, headers) ==
    IF e.SERVER_TOKEN = <<>> THEN "next"
    ELSE LET tok == OrElse(headers.xSolToken, headers.authorization)
             bearer == IF startsWith(tok, BearerPrefix) THEN slice(tok, 7) ELSE tok
         IN IF bearer # <<>> /\ bearer = e.SERVER_TOKEN THEN "next" ELSE "401"

\* the routes registered with requireSolAuth
GuardedRoutes ==
    {"/generate_document", "/update_task", "/notion_test_create", "/upsert_page",
     "/delete_page", "/append_task_content"}
\* the routes registered without it (lines 1232, 1263, 1280, 1718, 1745,
\* 1769, 1787 and 1790)
OpenRoutes ==
    {"/notion_schema", "/notion_raw_props", "/notion_users", "/search_web",
     "/health", "/whoami", "/", "/find_pages"}

\* the values a credential header can carry ("" when the header is absent)
HeaderValues ==
    {<<>>, Token, BearerPrefix \o Token, <<"b", "a", "d">>,
     BearerPrefix \o <<"b", "a", "d">>, BearerPrefix, <<"b", "e", "a", "r", "e", "r", " ">> \o Token}

\* express runs the middleware of the route, if it has one, before its handler
AuCheck ==
    /\ auPc = "check"
    /\ IF auRoute \in GuardedRoutes /\ requireSolAuth(env, auHeaders) = "401"
       THEN auRes' = 401 /\ auPc' = "done"
       ELSE auRes' = auRes /\ auPc' = "handler"
    /\ UNCHANGED <<auRoute, auHeaders, auEntered>>

\* the handler of the route runs: from here on it may call the remote store
AuHandler ==
    /\ auPc = "handler"
    /\ auEntered' = TRUE
    /\ auPc' = "done"
    /\ UNCHANGED <<auRoute, auHeaders, auRes>>

----------------------------------------------------------------------------
\* /delete_page: archive a page given by page_id, or by db and title

\* no database id is configured
EnvNoDbs ==
    [EnvFull EXCEPT !.NOTION_DATABASE_ID = <<>>, !.ROADMAP_DATABASE_ID = <<>>,
                    !.TASK_TRACKER_DATABASE_ID = <<>>]

\* the request bodies: with and without a page_id, a database key (one with
\* another key in the query), a title, and
\* dry_run absent, true, false and the string "false"
DeleteBodies ==
    {DeleteBodyOf(<<>>, <<>>, <<"T", "a", "s", "k", "s">>, <<"P", "1">>, VUndef),
     DeleteBodyOf(<<"r", "o", "a", "d", "m", "a", "p">>, <<>>, <<"T", "a", "s", "k", "s">>, <<"P", "1">>, VUndef)}
    \cup
    {DeleteBody(page_id, db, title, dry_run) :
        page_id \in {<<>>, <<" ">>, <<"p", "g", "1">>},
        db \in {<<>>, <<"r", "o", "a", "d", "m", "a", "p">>, <<"T", "a", "s", "k", "s">>},
        title \in {<<>>, <<"P", "1">>, <<" ", "z", "e", "d", " ">>},
        dry_run \in {VUndef, VBool(TRUE), VBool(FALSE), VStr(<<"f", "a", "l", "s", "e">>)}}

DryRun_Never(body) == FALSE
\* const dryRun = Boolean(req.body?.dry_run)
DryRun(body) == Truthy(body.dry_run)

\* res.status(200).json({ ok: true, simulating: true, ..., page_id, dry_run })
DeleteSimulated(pageId, dryRun) ==
    [NoDeleteRes EXCEPT !.sent = TRUE, !.status = 200, !.ok = TRUE, !.simulating = TRUE,
                        !.page_id = pageId, !.dry_run = dryRun]
\* res.status(400 | 404).json({ ok: false, error, hint })
DeleteRefused(status, error) ==
    [NoDeleteRes EXCEPT !.sent = TRUE, !.status = status, !.error = error]
\* res.status(200).json({ ok: true, dry_run: true, action: "archive", page_id, reason })
DeleteDryRun(pageId) ==
    [NoDeleteRes EXCEPT !.sent = TRUE, !.status = 200, !.ok = TRUE, !.dry_run = TRUE,
                        !.action = "archive", !.page_id = pageId]
\* res.status(200).json({ ok: true, archived: true, page_id, reason })
DeleteArchived(pageId) ==
    [NoDeleteRes EXCEPT !.sent = TRUE, !.status = 200, !.ok = TRUE, !.archived = TRUE,
                        !.page_id = pageId]
\* catch (err): res.status(500).json({ ok: false, error: "Failed to archive page", status, ... })
DeleteFailed(status) ==
    [NoDeleteRes EXCEPT !.sent = TRUE, !.status = 500, !.error = "Failed to archive page",
                        !.upstream = status]

\* lines 1652-1681: read the body; without a page_id, call resolveTitleToId with
\* the database and the title
DlReceive ==
    /\ dlPc = "idle"
    /\ \E body \in DeleteBodies :
          LET pageId == trim(body.page_id)
              title == trim(body.title)
              targetDatabaseId == getNotionDbId(env, dbSelector(body))
          IN /\ dlReq' = body
             /\ dlPageId' = pageId
             /\ IF env.NOTION_KEY = <<>>
                THEN /\ dlRes' = DeleteSimulated(pageId, DryRun(body))
                     /\ dlPc' = "done"
                     /\ UNCHANGED <<rsPc, rsDb, rsTitle>>
                ELSE IF pageId # <<>>
                THEN /\ dlRes' = dlRes
                     /\ dlPc' = "act"
                     /\ UNCHANGED <<rsPc, rsDb, rsTitle>>
                ELSE IF targetDatabaseId = <<>> \/ title = <<>>
                THEN /\ dlRes' = DeleteRefused(400, "missing_identifier")
                     /\ dlPc' = "done"
                     /\ UNCHANGED <<rsPc, rsDb, rsTitle>>
                ELSE /\ dlRes' = dlRes
                     /\ dlPc' = "resolve"
                     /\ rsPc' = "schema"
                     /\ rsDb' = targetDatabaseId
                     /\ rsTitle' = title
    /\ UNCHANGED <<dlCalls, dlArchived, rsTitleProp, rsMatch, rsCalls, rsSeen, rsResult>>

\* lines 1681-1685: const resolved = await resolveTitleToId(...)
DlResolved ==
    /\ dlPc = "resolve"
    /\ rsPc = "done"
    /\ IF rsResult.id = <<>>
       THEN /\ dlRes' = DeleteRefused(404, "not_found")
            /\ dlPc' = "done"
            /\ dlPageId' = dlPageId
       ELSE /\ dlPageId' = rsResult.id
            /\ dlPc' = "act"
            /\ dlRes' = dlRes
    /\ UNCHANGED <<dlReq, dlCalls, dlArchived, rsVars>>

\* lines 1688-1709: answer a dry run, or PATCH { archived: true } and answer
DlAct ==
    /\ dlPc = "act"
    /\ IF DryRun(dlReq)
       THEN /\ dlRes' = DeleteDryRun(dlPageId)
            /\ UNCHANGED <<dlCalls, dlArchived>>
       ELSE /\ dlCalls' = Append(dlCalls, "ARCHIVE")
            /\ \E status \in RemoteStatuses :
                  IF status = 200
                  THEN /\ dlArchived' = dlArchived \cup {dlPageId}
                       /\ \E id \in {<<>>, dlPageId} :
                             dlRes' = DeleteArchived(OrElse(id, dlPageId))
                  ELSE /\ dlArchived' = dlArchived
                       /\ dlRes' = DeleteFailed(status)
    /\ dlPc' = "done"
    /\ UNCHANGED <<dlReq, dlPageId, rsVars>>

----------------------------------------------------------------------------
\* One doNotion call under every sequence of responses

InitDoNotion == env = EnvFull /\ DnInit /\ UpIdle /\ RsIdle /\ BpIdle /\ GiIdle /\ PeIdle /\ RpIdle /\ AuIdle /\ DlIdle

NextDoNotion ==
    \/ DnAttempt /\ UNCHANGED <<env, upVars, rsVars, bpVars, giVars, peVars, rpVars, auVars, dlVars>>
    \/ DnAnswer /\ UNCHANGED <<env, upVars, rsVars, bpVars, giVars, peVars, rpVars, auVars, dlVars>>
    \/ DnSleep /\ UNCHANGED <<env, upVars, rsVars, bpVars, giVars, peVars, rpVars, auVars, dlVars>>
    \/ DnExhaust /\ UNCHANGED <<env, upVars, rsVars, bpVars, giVars, peVars, rpVars, auVars, dlVars>>

SpecDoNotion == InitDoNotion /\ [][NextDoNotion]_vars

\* what the scheduling of the program makes happen: a call that can issue
\* its next request or leave the loop does so, and the timer of sleep
\* (setTimeout, line 853) fires.  Nothing makes the remote answer: a request
\* has no timeout (line 863), so a call may stay suspended on it forever
SpecDoNotionFair ==
    SpecDoNotion /\ WF_dnVars(DnAttempt) /\ WF_dnVars(DnSleep) /\ WF_dnVars(DnExhaust)

AllTransient(seq) == \A i \in 1..Len(seq) : seq[i] \in {409, 429}

\* C7: one doNotion call issues at most 5 requests whatever the responses, and
\* when all 5 end with status 409 or 429 the call throws the error of the 5th
\* (the last) attempt.
C7_AtMostFiveRequests ==
    /\ requests <= 5
    /\ Len(responses) = requests - (IF dnPc = "await" THEN 1 ELSE 0)
    /\ (dnPc = "done" /\ requests = 5 /\ AllTransient(responses))
          => dnResult = Thrown(Err(responses[5], 5))

C7_Witness ==
    dnPc = "done" /\ requests = 5 /\ AllTransient(responses) /\ dnResult.kind = "throw"

\* C8: an attempt that fails with a status other than 409/429 (0: no status at
\* all) ends the call with that very error: it is the last request, and the
\* call has slept only for the transient failures before it.
C8_OtherErrorsRaisedAtOnce ==
    \A i \in 1..Len(responses) :
        responses[i] \notin {200, 409, 429} =>
            /\ i = Len(responses)
            /\ requests = i
            /\ sleeps = i - 1
            /\ dnPc = "done"
            /\ dnResult = Thrown(Err(responses[i], i))

C8_Witness ==
    /\ dnPc = "done"
    /\ Len(responses) = 3
    /\ responses[3] = 0
    /\ dnResult.kind = "throw"

\* C9: k consecutive 409/429 responses (0 <= k <= 4) never end the call, and a
\* success after them is what the call returns.
C9_SuccessAfterTransients ==
    /\ (AllTransient(responses) /\ Len(responses) <= 4) => dnPc # "done"
    /\ \A i \in 1..Len(responses) :
          (responses[i] = 200 /\ AllTransient(SubSeq(responses, 1, i - 1))) =>
              /\ i <= 5
              /\ dnPc = "done"
              /\ dnResult = Returned(200, i)

C9_Witness ==
    /\ dnPc = "done"
    /\ Len(responses) = 5
    /\ AllTransient(SubSeq(responses, 1, 4))
    /\ dnResult = Returned(200, 5)

\* C10 as stated: the call gives up on a run of transient responses when it
\* receives the 6th one, and not earlier.
C10_Original_SixthExhausts ==
    (dnPc = "done" /\ dnResult.kind = "throw" /\ dnResult.status \in {409, 429})
        => Len(responses) = 6

\* C10 as amended: the call gives up on a run of 409/429 responses when it has
\* received (and slept after) the 5th one, and not earlier; a 6th request is
\* never issued.
C10_FifthExhausts ==
    /\ (dnPc = "done" /\ dnResult.kind = "throw" /\ dnResult.status \in {409, 429})
          => (Len(responses) = 5 /\ AllTransient(responses) /\ dnResult.n = 5)
    /\ (Len(responses) = 5 /\ AllTransient(responses) /\ dnPc = "loop")
          => ~ENABLED DnAttempt
    /\ Len(responses) <= 5

C10_Witness ==
    /\ dnPc = "done"
    /\ responses = <<429, 429, 429, 429, 429>>
    /\ dnResult = Thrown(Err(429, 5))

\* the base delays of the claim, for attempt index 0..4
BaseDelays == <<250, 500, 1000, 2000, 2000>>

\* C28: the i-th wait of a call (attempt index i - 1) is the base delay 250,
\* 500, 1000, 2000, 2000 ms of that attempt plus an integer jitter in 0..99;
\* it is at least 250 and less than 2100 ms; at most 5 waits are made.
C28_BackoffSchedule ==
    /\ Len(waits) = sleeps
    /\ Len(waits) <= 5
    /\ \A i \in 1..Len(waits) :
          /\ i <= 5
          /\ waits[i] - BaseDelays[i] \in 0..99
          /\ waits[i] >= 250
          /\ waits[i] < 2100
    /\ \A i \in 1..4 : BaseDelays[i] <= BaseDelays[i + 1]

C28_Witness ==
    /\ Len(waits) = 5
    /\ waits[1] = 250
    /\ waits[3] = 1050
    /\ waits[5] = 2099

\* C29 as stated: the waits of one call never add up to more than 5000 ms.
C29_Original_AtMostFiveSeconds == waited <= 5000

RECURSIVE Sum(_)
Sum(seq) == IF seq = <<>> THEN 0 ELSE Head(seq) + Sum(Tail(seq))

\* C29 as amended: the waits of one call never add up to more than 6245 ms
\* (five base delays, 5750 ms, and five jitters of at most 99 ms), and a call
\* that exhausts its retry budget has waited at least 5750 ms.
C29_AtMostSixAndAQuarterSeconds ==
    /\ waited = Sum(waits)
    /\ waited <= 6245
    /\ (dnPc = "done" /\ dnResult.kind = "throw" /\ dnResult.status \in {409, 429})
          => waited >= 5750

C29_Witness ==
    /\ dnPc = "done"
    /\ dnResult.kind = "throw"
    /\ sleeps = 5
    /\ waited = 6245

\* what is left of the retry budget: it decreases with every step of the call
Budget ==
    CASE dnPc = "loop" -> 3 * (5 - attempt) + 3
      [] dnPc = "await" -> 3 * (5 - attempt) + 2
      [] dnPc = "sleep" -> 3 * (5 - attempt) + 1
      [] OTHER -> 0

\* every request of the call gets a response (a success or a failure)
EveryRequestAnswered == (dnPc = "await") ~> (dnPc # "await")

\* every response of the call is a 429
Only429 == \A i \in 1..Len(responses) : responses[i] = 429

\* C30: under every sequence of responses (every request of the call getting
\* one) the call terminates, returning a response or raising an error: every
\* step uses up some of a budget of at most 18 steps and a call that has not
\* ended has a step to take; a run of 429 responses ends after the 5th one
\* with that error, never with a result before; and the call is suspended
\* only inside the retry loop, on its request or on the timer of sleep, which
\* is the only step in which it waits for time to pass.
C30_Terminates ==
    /\ [][Budget' < Budget]_dnVars
    /\ [](Budget \in 0..18)
    /\ [](dnPc # "done" => ENABLED NextDoNotion)
    /\ [](dnPc = "done" => dnResult.kind \in {"return", "throw"})
    /\ EveryRequestAnswered => <>(dnPc = "done")
    /\ [](Only429 => IF dnPc = "done"
                     THEN Len(responses) = max /\ dnResult = Thrown(Err(429, max))
                     ELSE Len(responses) < max \/ (Len(responses) = max /\ sleeps >= max - 1))
    /\ [](dnPc \in {"await", "sleep"} => LoopGuard)
    /\ [](dnPc \notin {"await", "sleep", "done"} => ENABLED (DnAttempt \/ DnExhaust))
    /\ [][(sleeps' # sleeps \/ waited' # waited) =>
             (dnPc = "sleep" /\ dnPc' = "loop" /\ sleeps' = sleeps + 1
                /\ waited' > waited)]_dnVars

C30_Witness ==
    /\ dnPc = "done"
    /\ responses = <<429, 409, 429, 409, 429>>
    /\ dnResult.kind = "throw"
    /\ sleeps = 5

\* the number of 409/429 responses in a sequence of responses
RECURSIVE TransientCount(_)
TransientCount(seq) ==
    IF seq = <<>> THEN 0
    ELSE (IF Head(seq) \in {409, 429} THEN 1 ELSE 0) + TransientCount(Tail(seq))

\* C38: the call sleeps exactly once for every 409/429 failure (the sleep of
\* the latest one may still be pending), the fifth included: a call that gives
\* up has slept 5 times for its 5 requests, raises only once the fifth sleep
\* is over, and issues no request after that sleep.
C38_OneSleepPerTransientFailure ==
    /\ sleeps + (IF dnPc = "sleep" THEN 1 ELSE 0) = TransientCount(responses)
    /\ Len(waits) = sleeps
    /\ (dnPc = "sleep" /\ requests = 5) => dnResult = Pending
    /\ (dnPc = "done" /\ requests = 5 /\ TransientCount(responses) = 5) =>
          /\ sleeps = 5
          /\ dnResult.kind = "throw"
    /\ (sleeps = 5 /\ dnPc = "loop") => (~ENABLED DnAttempt /\ ENABLED DnExhaust)
    /\ sleeps = 5 => requests = 5

C38_Witness ==
    /\ dnPc = "done"
    /\ dnResult.kind = "throw"
    /\ responses = <<409, 409, 429, 429, 409>>
    /\ sleeps = 5
    /\ Len(waits) = 5

----------------------------------------------------------------------------
\* /upsert_page: the handler, one action per stretch between two awaits

\* obj[k], undefined when the key is absent
Member(entries, k) == IF Has(entries, k) THEN Get(entries, k) ELSE VUndef

\* const metaPid = __incomingContent.meta.page_id || __incomingContent.meta.id || null
MetaPid(meta) ==
    IF Truthy(Member(meta, K_page_id)) THEN Member(meta, K_page_id)
    ELSE Member(meta, K_id)

\* if (!pageId && metaPid) pageId = String(metaPid).trim() || null; when
\* String(metaPid) raises, the catch of the shim leaves pageId null
PageIdFromMeta(meta) ==
    IF Truthy(MetaPid(meta)) /\ ~StringThrows(MetaPid(meta))
    THEN trim(StringOf(MetaPid(meta)))
    ELSE <<>>

\* let pageId = (req.body?.page_id || "").toString().trim() || null  ("" is null),
\* then the page id of content.meta when that gave none
PageId ==
    IF trim(req.page_id) # <<>> THEN trim(req.page_id)
    ELSE PageIdFromMeta(req.content.meta)

\* const CONTROL_KEYS = new Set(["page_id", "id", "_update", "_mode"])
CONTROL_KEYS == {<<"p", "a", "g", "e", "_", "i", "d">>, <<"i", "d">>, <<"_", "u", "p", "d", "a", "t", "e">>, <<"_", "m", "o", "d", "e">>}

RECURSIVE MergeMeta_Overrides(_, _)
MergeMeta_Overrides(fields, meta) ==
    IF meta = <<>> THEN fields
    ELSE MergeMeta_Overrides(IF Head(meta).k \notin CONTROL_KEYS
                             THEN Put(fields, Head(meta).k, Head(meta).v) ELSE fields,
                             Tail(meta))
\* for (const [mk, mv] of Object.entries(meta)): fields[mk] = mv unless mk is a
\* control key or fields[mk] is not undefined
RECURSIVE MergeMeta(_, _)
MergeMeta(fields, meta) ==
    IF meta = <<>> THEN fields
    ELSE LET mk == Head(meta).k
             mv == Head(meta).v
         IN MergeMeta(IF mk \notin CONTROL_KEYS /\ ~HasMember(fields, mk)
                      THEN Put(fields, mk, mv) ELSE fields,
                      Tail(meta))

\* const fields = req.body?.fields || req.body?.properties || {}: the object
\* under fields when there is one, else the one under properties
FieldsOf(body) == IF body.given THEN body.fields ELSE body.properties

\* line 1346 raises: no page id was given, and String(metaPid) cannot convert
\* the one of content.meta
MetaThrows(body) ==
    /\ trim(body.page_id) = <<>>
    /\ Truthy(MetaPid(ObjectOf(body.content.meta)))
    /\ StringThrows(MetaPid(ObjectOf(body.content.meta)))

\* fields after the shim of lines 1341-1358: what line 1346 raises is caught at
\* line 1357, after the loop of line 1351 was skipped
MergedFields(body) ==
    IF MetaThrows(body) THEN ObjectOf(FieldsOf(body))
    ELSE MergeMeta(ObjectOf(FieldsOf(body)), ObjectOf(body.content.meta))

\* const targetDatabaseId = getNotionDbId(dbSelector)
TargetDatabaseId(body) == getNotionDbId(env, dbSelector(body))

TaskRelationNames == {<<"p", "a", "r", "e", "n", "t", " ", "t", "a", "s", "k">>, <<"p", "a", "r", "e", "n", "t">>, <<"s", "u", "b", " ", "t", "a", "s", "k", "s">>, <<"s", "u", "b", "t", "a", "s", "k", "s">>, <<"c", "h", "i", "l", "d", "r", "e", "n">>}

\* relationTargets[k] = ... of lines 1376-1386: the database a relation
\* property points to ("" when the property is no relation or its database is
\* unknown)
AssignedTarget(k) ==
    IF ~Has(props, k) THEN <<>>
    ELSE LET v == Get(props, k)
             name == toLowerCase(k)
         IN IF v.type # "relation" THEN <<>>
            ELSE IF v.db # <<>> THEN v.db
            ELSE IF name = <<"r", "o", "a", "d", "m", "a", "p">> /\ env.ROADMAP_DATABASE_ID # <<>>
                 THEN env.ROADMAP_DATABASE_ID
            ELSE IF env.TASK_TRACKER_DATABASE_ID # <<>> /\ name \in TaskRelationNames
                 THEN env.TASK_TRACKER_DATABASE_ID
            ELSE <<>>

\* const targetDb = relationTargets[k], as normId reads it (String(targetDb ||
\* "")): the database assigned for k, or what relationTargets inherits under
\* that name (an assignment to "__proto__" having created no key)
RelationTarget(k) ==
    IF AssignedTarget(k) # <<>> /\ k # K_proto THEN AssignedTarget(k)
    ELSE IF k \in ObjectPrototype THEN InheritedString(k)
    ELSE <<>>

\* the tests of the normalization loop (lines 1390-1393)
IsRoadmapTarget(targetDb) ==
    /\ targetDb # <<>>
    /\ env.ROADMAP_DATABASE_ID # <<>>
    /\ normId(targetDb) = normId(env.ROADMAP_DATABASE_ID)
IsTasksTarget(targetDb) ==
    /\ targetDb # <<>>
    /\ env.TASK_TRACKER_DATABASE_ID # <<>>
    /\ normId(targetDb) = normId(env.TASK_TRACKER_DATABASE_ID)

\* vals.filter(x => typeof x === "string" && !uuidRe.test(toDashedUuid(x)))
BadTitles(vals) ==
    SelectSeq(vals, LAMBDA x : x.t = "str" /\ ~uuidReTest(toDashedUuid(x.s)))

\* the test of the unresolved report (lines 1420-1425)
IsReportedRelation(k) ==
    \/ IsRoadmapTarget(RelationTarget(k))
    \/ toLowerCase(k) = <<"r", "o", "a", "d", "m", "a", "p">>
    \/ IsTasksTarget(RelationTarget(k))

\* const unresolved, computed from normalizedFields (lines 1417-1430)
RECURSIVE Unresolved(_)
Unresolved(entries) ==
    IF entries = <<>> THEN <<>>
    ELSE LET e == Head(entries) IN
         Maybe(IsReportedRelation(e.k) /\ BadTitles(AsArray(e.v)) # <<>>,
               [property |-> e.k, value |-> e.v])
         \o Unresolved(Tail(entries))

\* Object.entries(props) has a property of type title
HasTitleProp(schema) == \E i \in 1..Len(schema) : schema[i].v.type = "title"

\* let titlePropName: the name of the first property of type title, or null
\* ("" here, as falsy as the empty name is)
RECURSIVE TitlePropName(_)
TitlePropName(schema) ==
    IF schema = <<>> THEN <<>>
    ELSE IF Head(schema).v.type = "title" THEN Head(schema).k
    ELSE TitlePropName(Tail(schema))

\* properties[titlePropName]: a null name reads the key "null"
TitleKey(schema) ==
    IF HasTitleProp(schema) THEN TitlePropName(schema) ELSE <<"n", "u", "l", "l">>

\* content.description.split(/\n+/).filter((s) => s.trim().length).length, cur
\* being the part under way
RECURSIVE Paragraphs(_, _)
Paragraphs(s, cur) ==
    IF s = <<>> THEN (IF trim(cur) # <<>> THEN 1 ELSE 0)
    ELSE IF Head(s) = "\n"
    THEN (IF trim(cur) # <<>> THEN 1 ELSE 0) + Paragraphs(Tail(s), <<>>)
    ELSE Paragraphs(Tail(s), Append(cur, Head(s)))

\* Array.isArray(v) ? v : nothing
ArrayItems(v) == IF v.t = "arr" THEN v.items ELSE <<>>

\* the block types of the switch of lines 972-1005
BlockTypes ==
    {<<"h", "e", "a", "d", "i", "n", "g", "_", "1">>, <<"h", "e", "a", "d", "i", "n", "g", "_", "2">>, <<"h", "e", "a", "d", "i", "n", "g", "_", "3">>, <<"b", "u", "l", "l", "e", "t", "e", "d", "_", "l", "i", "s", "t", "_", "i", "t", "e", "m">>,
     <<"n", "u", "m", "b", "e", "r", "e", "d", "_", "l", "i", "s", "t", "_", "i", "t", "e", "m">>, <<"p", "a", "r", "a", "g", "r", "a", "p", "h">>, <<"c", "a", "l", "l", "o", "u", "t">>, <<"t", "o", "g", "g", "l", "e">>, <<"c", "o", "d", "e">>}

\* an element of content.blocks that gives a block
IsBlock(b) ==
    /\ b.t = "obj"
    /\ MemberOf(b, "type").t = "str"
    /\ MemberOf(b, "type").s \in BlockTypes

\* (b.text ?? "").toString() of line 970 or String(b.icon) of line 988 raises
BlockThrows(b) ==
    /\ b.t = "obj"
    /\ \/ ItemThrows(MemberOf(b, "text"))
       \/ /\ MemberOf(b, "type") = IStr(<<"c", "a", "l", "l", "o", "u", "t">>)
          /\ Truthy(MemberOf(b, "icon"))
          /\ ItemThrows(MemberOf(b, "icon"))

\* an element of content.subtasks that gives a to_do block
IsSubtask(it) == Truthy(it) /\ Truthy(MemberOf(it, "text"))

\* url of lines 1035-1037, null being undefined here
FileUrl(f) ==
    IF f.t = "str" THEN f
    ELSE IF f.t # "obj" THEN IUndef
    ELSE IF Truthy(MemberOf(f, "url")) THEN MemberOf(f, "url")
    ELSE IF Truthy(MemberOf(f, "href")) THEN MemberOf(f, "href")
    ELSE MemberOf(MemberOf(f, "external"), "url")

\* an element of content.files that gives a file block and, its name being
\* f.name or the never empty inferName(url), a paragraph
HasUrl(f) == Truthy(FileUrl(f))

\* buildBlocksFromContent(content) raises
BlocksThrow(content) ==
    /\ content.present
    /\ \/ \E i \in 1..Len(ArrayItems(content.blocks)) :
             BlockThrows(ArrayItems(content.blocks)[i])
       \/ \E i \in 1..Len(ArrayItems(content.subtasks)) :
             /\ IsSubtask(ArrayItems(content.subtasks)[i])
             /\ ItemThrows(MemberOf(ArrayItems(content.subtasks)[i], "text"))

\* buildBlocksFromContent(content).length
BlockCount(content) ==
    IF ~content.present THEN 0
    ELSE (IF trim(content.description) # <<>>
          THEN Paragraphs(content.description, <<>>) ELSE 0)
         + Len(SelectSeq(ArrayItems(content.blocks), IsBlock))
         + Len(SelectSeq(ArrayItems(content.subtasks), IsSubtask))
         + 2 * Len(SelectSeq(ArrayItems(content.files), HasUrl))

Failed_WithPageId(status) ==
    [NoRes EXCEPT !.sent = TRUE, !.status = 500, !.error = "Failed to upsert page",
                  !.upstream = status, !.page_id = PageIdOut]
\* catch (err): res.status(500).json({ ok: false, error: "Failed to upsert page", status, ... })
Failed(status) ==
    [NoRes EXCEPT !.sent = TRUE, !.status = 500, !.error = "Failed to upsert page",
                  !.upstream = status]

\* res.status(400).json({ ok: false, error: "relation_title_not_found", ... })
RelationFailure(list, withSuggestions, titles) ==
    [NoRes EXCEPT !.sent = TRUE, !.status = 400, !.error = "relation_title_not_found",
                  !.unresolved = list, !.hasSuggestions = withSuggestions,
                  !.suggestions = titles]

\* Object.keys(skips).length ? skips : null
SkipsReported == Len(Keys(skips)) # 0

\* res.status(200).json({ ok: true, mode, ..., page_id, skipped, ... }); skipped
\* is null (skippedIsNull) or the skips object
Success(mode) ==
    [NoRes EXCEPT !.sent = TRUE, !.status = 200, !.ok = TRUE, !.mode = mode,
                  !.page_id = PageIdOut,
                  !.skipped = IF SkipsReported THEN skips ELSE <<>>,
                  !.skippedIsNull = ~SkipsReported]

\* lines 1331-1366: read the body; answer "simulating" without a key or a
\* database (res is the response object of this request, with nothing sent)
Received(body) ==
    /\ reqBody' = body
    /\ req' = [body EXCEPT !.fields = MergedFields(body),
                           !.content.meta = ObjectOf(body.content.meta)]
    /\ IF env.NOTION_KEY = <<>> \/ TargetDatabaseId(body) = <<>>
       THEN /\ res' = [NoRes EXCEPT !.sent = TRUE, !.status = 200, !.ok = TRUE,
                                    !.simulating = TRUE]
            /\ pc' = "done"
       ELSE /\ res' = NoRes
            /\ pc' = "schema"

\* a request arrives
UpReceive ==
    /\ pc = "idle"
    /\ \E body \in Bodies : Received(body)
    /\ UNCHANGED <<props, normalizedFields, fi, ai, out, nullTitles, unresolved,
                   properties, propertiesProto, skips, usersIndex, upsertCreated, calls, writePayload, statuses,
                   lookups, suggestDb, writeTarget,
                   schemaResp>>

SchemaInUse_Cached(schema) == IF rpFirst.done THEN rpFirst.props ELSE schema
\* const props = schemaResp.data.properties || {}, the answer being parsed
\* from its JSON text
SchemaInUse(schema) == ObjectOf(schema)

\* lines 1368-1373: fetch the schema of the target database
UpFetchSchema ==
    /\ pc = "schema"
    /\ calls' = Append(calls, "GET_DB")
    /\ \E status \in RemoteStatuses :
          /\ statuses' = Append(statuses, status)
          /\ IF status = 200
             THEN /\ \E schema \in Schemas :
                        /\ schemaResp' = schema
                        /\ props' = SchemaInUse(schema)
                  /\ normalizedFields' = req.fields
                  /\ fi' = 1
                  /\ ai' = 1
                  /\ pc' = "normalize"
                  /\ res' = res
             ELSE /\ res' = Failed(status)
                  /\ pc' = "done"
                  /\ UNCHANGED <<props, normalizedFields, fi, ai, schemaResp>>
    /\ UNCHANGED <<req, reqBody, upsertCreated, out, nullTitles, unresolved, properties, propertiesProto, skips, usersIndex,
                   writePayload, lookups, suggestDb, writeTarget>>

\* out.push(id) when the resolver found an id
PushResolved(list, id) == IF id # <<>> THEN Append(list, id) ELSE list

\* if (out.length) normalizedFields[k] = out
StoreOut(entries, k, list) ==
    IF list # <<>> THEN Put(entries, k, VArr([i \in 1..Len(list) |-> IStr(list[i])]))
    ELSE entries

\* const lookupDb = isRoadmapRelation ? ROADMAP_DATABASE_ID : TASK_TRACKER_DATABASE_ID
LookupDb(targetDb) ==
    IF IsRoadmapTarget(targetDb) THEN env.ROADMAP_DATABASE_ID
    ELSE env.TASK_TRACKER_DATABASE_ID

\* one resolveTitleToId(lookupDb, headers, title) call and what it ended with
Lookup(k, title, db, r) ==
    [property |-> k, title |-> title, db |-> db, id |-> r.id, upstream |-> r.upstream]

\* lines 1387-1413: one step of the normalization loop, for field fi (and item
\* ai of an array value); a string goes through resolveTitleToId
UpNormalize ==
    /\ pc = "normalize"
    /\ fi <= Len(req.fields)
    /\ LET k == req.fields[fi].k
           v == req.fields[fi].v
           targetDb == RelationTarget(k)
           resolving == IsRoadmapTarget(targetDb) \/ IsTasksTarget(targetDb)
       IN IF resolving /\ v.t = "str"
          THEN \E r \in ResolverOutcomes :
                  /\ calls' = Append(calls, "RESOLVE")
                  /\ statuses' = Append(statuses, r.upstream)
                  /\ lookups' = Append(lookups, Lookup(k, v.s, LookupDb(targetDb), r))
                  /\ normalizedFields' =
                        IF r.id # <<>> THEN Put(normalizedFields, k, VArr(<<IStr(r.id)>>))
                        ELSE normalizedFields
                  /\ nullTitles' =
                        IF r.id = <<>> THEN Append(nullTitles, [property |-> k, value |-> v.s])
                        ELSE nullTitles
                  /\ fi' = fi + 1
                  /\ UNCHANGED <<ai, out>>
          ELSE IF resolving /\ v.t = "arr" /\ ai <= Len(v.items)
          THEN LET item == v.items[ai] IN
               IF item.t = "str"
               THEN \E r \in ResolverOutcomes :
                       /\ calls' = Append(calls, "RESOLVE")
                       /\ statuses' = Append(statuses, r.upstream)
                       /\ lookups' =
                             Append(lookups, Lookup(k, item.s, LookupDb(targetDb), r))
                       /\ out' = PushResolved(out, r.id)
                       /\ nullTitles' =
                             IF r.id = <<>>
                             THEN Append(nullTitles, [property |-> k, value |-> item.s])
                             ELSE nullTitles
                       /\ ai' = ai + 1
                       /\ UNCHANGED <<normalizedFields, fi>>
               ELSE /\ out' = IF item.t = "obj" /\ item.id # <<>>
                              THEN Append(out, item.id) ELSE out
                    /\ ai' = ai + 1
                    /\ UNCHANGED <<normalizedFields, fi, nullTitles, calls, statuses,
                                   lookups>>
          ELSE IF resolving /\ v.t = "arr"
          THEN /\ normalizedFields' = StoreOut(normalizedFields, k, out)
               /\ out' = <<>>
               /\ ai' = 1
               /\ fi' = fi + 1
               /\ UNCHANGED <<nullTitles, calls, statuses, lookups>>
          ELSE /\ fi' = fi + 1
               /\ UNCHANGED <<normalizedFields, ai, out, nullTitles, calls, statuses,
                              lookups>>
    /\ UNCHANGED <<pc, req, reqBody, upsertCreated, props, unresolved, properties, propertiesProto, skips, usersIndex,
                   writePayload, res, suggestDb, writeTarget,
                   schemaResp>>

AfterUnresolved_Ignored(list) == "build"
\* if (unresolved.length) { ... return res.status(400)... }, else the build loop
AfterUnresolved(list) == IF list # <<>> THEN "suggest" ELSE "build"

\* lines 1415-1431 and 1584-1585: the unresolved report decides between the
\* suggestions and the build loop
UpCheckUnresolved ==
    /\ pc = "normalize"
    /\ fi > Len(req.fields)
    /\ unresolved' = Unresolved(normalizedFields)
    /\ pc' = AfterUnresolved(unresolved')
    /\ fi' = 1
    /\ UNCHANGED <<req, reqBody, upsertCreated, props, normalizedFields, ai, out, nullTitles, properties, propertiesProto,
                   skips, usersIndex, calls, writePayload, res, statuses, lookups,
                   suggestDb, writeTarget,
                   schemaResp>>

\* let dbForSuggest = ROADMAP_DATABASE_ID || TASK_TRACKER_DATABASE_ID
DbForSuggest == OrElse(env.ROADMAP_DATABASE_ID, env.TASK_TRACKER_DATABASE_ID)

\* lines 1432-1441: the schema of the suggestions database, to find its title
\* property; an error is caught and answered without suggestions
UpSuggestSchema ==
    /\ pc = "suggest"
    /\ IF DbForSuggest = <<>>
       THEN /\ res' = RelationFailure(unresolved, TRUE, <<>>)
            /\ pc' = "done"
            /\ UNCHANGED <<calls, statuses, suggestDb>>
       ELSE /\ calls' = Append(calls, "GET_SUGGEST_DB")
            /\ suggestDb' = DbForSuggest
            /\ \E status \in RemoteStatuses :
                  /\ statuses' = Append(statuses, status)
                  /\ IF status # 200
                     THEN /\ res' = RelationFailure(unresolved, FALSE, <<>>)
                          /\ pc' = "done"
                     ELSE \E hasTitle \in BOOLEAN :
                             IF hasTitle
                             THEN /\ pc' = "suggest_query"
                                  /\ res' = res
                             ELSE /\ res' = RelationFailure(unresolved, TRUE, <<>>)
                                  /\ pc' = "done"
    /\ UNCHANGED <<req, reqBody, upsertCreated, props, normalizedFields, fi, ai, out, nullTitles, unresolved,
                   properties, propertiesProto, skips, usersIndex, writePayload, lookups, writeTarget,
                   schemaResp>>

\* lines 1442-1462: the suggestions query and the relation_title_not_found answer
UpSuggestQuery ==
    /\ pc = "suggest_query"
    /\ calls' = Append(calls, "QUERY_SUGGEST_DB")
    /\ \E status \in RemoteStatuses :
          /\ statuses' = Append(statuses, status)
          /\ IF status # 200
             THEN res' = RelationFailure(unresolved, FALSE, <<>>)
             ELSE \E titles \in SuggestionLists :
                     res' = RelationFailure(unresolved, TRUE, titles)
    /\ pc' = "done"
    /\ UNCHANGED <<req, reqBody, upsertCreated, props, normalizedFields, fi, ai, out, nullTitles, unresolved,
                   properties, propertiesProto, skips, usersIndex, writePayload, lookups, suggestDb,
                   writeTarget,
                   schemaResp>>

NeedsUsers_AnyField == fi <= Len(normalizedFields) /\ ~usersIndex.set
\* the field of the build loop needs the people directory and it is not there
NeedsUsers ==
    /\ fi <= Len(normalizedFields)
    /\ Has(props, normalizedFields[fi].k)
    /\ Get(props, normalizedFields[fi].k).type = "people"
    /\ ~usersIndex.set

\* lines 1516-1518 up to the first await: the index is not there and
\* listAllUsers is called; the request is the first of PeRequests
UpFetchUsers ==
    /\ pc = "build"
    /\ NeedsUsers
    /\ pc' = "users"
    /\ pePc' = [pePc EXCEPT ![1] = "fetching"]
    /\ pePage' = [pePage EXCEPT ![1] = 1]
    /\ peAcc' = [peAcc EXCEPT ![1] = <<>>]
    /\ UNCHANGED <<req, reqBody, upsertCreated, props, normalizedFields, fi, ai, out, nullTitles, unresolved,
                   properties, propertiesProto, skips, writePayload, lookups, suggestDb, writeTarget,
                   schemaResp, calls, statuses, res, usersIndex, peUsed, peBuilt>>

\* skips[k] = { reason, available } | { reason, type }
SkipEntry(built) ==
    [reason |-> built.reason, available |-> built.available, type |-> built.type]

\* lines 1590-1600: what one round of the build loop does with the field it is
\* at, buildProp reading idx as the people index (line 1520)
BuildRound(idx) ==
    /\ LET k == normalizedFields[fi].k
           built == buildProp(props, k, normalizedFields[fi].v, idx)
       IN IF built.tag = "throw"
          THEN \* the catch block of lines 1643-1647, err.response being undefined
               /\ res' = Failed(NoRes.upstream)
               /\ pc' = "done"
               /\ UNCHANGED <<fi, properties, propertiesProto, skips>>
          ELSE IF built.tag = "error"
          THEN /\ res' = [NoRes EXCEPT !.sent = TRUE, !.status = 400,
                                       !.error = built.reason, !.field = k]
               /\ pc' = "done"
               /\ UNCHANGED <<fi, properties, propertiesProto, skips>>
          ELSE /\ skips' = IF built.tag = "skip" THEN Put(skips, k, SkipEntry(built))
                           ELSE skips
               /\ properties' = IF built.tag = "value"
                                THEN Put(properties, k, built.payload) ELSE properties
               \* the assignment under "__proto__" sets the prototype
               /\ propertiesProto' = IF built.tag = "value" /\ k = K_proto
                                     THEN built.payload ELSE propertiesProto
               /\ fi' = fi + 1
               /\ pc' = "build"
               /\ res' = res

\* lines 938-947, 1518 and 1520: one GET /v1/users of listAllUsers and its
\* answer; an error goes to the catch block, a page with has_more and
\* next_cursor is followed by the next GET, and after the last page the index
\* is assigned, read at once (no await lies between lines 1518 and 1520) and
\* the field is built from it
UpUsersPage ==
    /\ pc = "users"
    /\ calls' = Append(calls, "GET_USERS")
    /\ \E status \in RemoteStatuses, results \in UserPages, more \in BOOLEAN :
          /\ PeAnswer(1, status, results, more)
          /\ statuses' = Append(statuses, status)
          /\ IF status # 200
             THEN /\ res' = Failed(status)
                  /\ pc' = "done"
                  /\ UNCHANGED <<fi, properties, propertiesProto, skips>>
             ELSE IF pePc'[1] = "done"
             THEN BuildRound(usersIndex')
             ELSE UNCHANGED <<pc, res, fi, properties, propertiesProto, skips>>
    /\ UNCHANGED <<req, reqBody, upsertCreated, props, normalizedFields, ai, out, nullTitles, unresolved,
                   writePayload, lookups, suggestDb, writeTarget,
                   schemaResp>>

\* lines 1590-1600: one round of the build loop, for a field that does not
\* wait for the directory: a people field tests the index (line 1517) and
\* reads it (line 1520) in one stretch
UpBuildField ==
    /\ pc = "build"
    /\ fi <= Len(normalizedFields)
    /\ ~NeedsUsers
    /\ BuildRound(usersIndex)
    /\ UNCHANGED <<req, reqBody, upsertCreated, props, normalizedFields, ai, out, nullTitles, unresolved,
                   usersIndex, calls, writePayload, statuses, lookups, suggestDb,
                   writeTarget,
                   schemaResp>>

\* the member under which a built value holds its content: { title: [...] },
\* { number: value }, ...
KindKey(type) ==
    CASE type = "title" -> <<"t", "i", "t", "l", "e">>
      [] type = "rich_text" -> <<"r", "i", "c", "h", "_", "t", "e", "x", "t">>
      [] type = "select" -> <<"s", "e", "l", "e", "c", "t">>
      [] type = "multi_select" -> <<"m", "u", "l", "t", "i", "_", "s", "e", "l", "e", "c", "t">>
      [] type = "status" -> <<"s", "t", "a", "t", "u", "s">>
      [] type = "date" -> <<"d", "a", "t", "e">>
      [] type = "number" -> <<"n", "u", "m", "b", "e", "r">>
      [] type = "checkbox" -> <<"c", "h", "e", "c", "k", "b", "o", "x">>
      [] type = "url" -> <<"u", "r", "l">>
      [] type = "people" -> <<"p", "e", "o", "p", "l", "e">>
      [] type = "files" -> <<"f", "i", "l", "e", "s">>
      [] type = "relation" -> <<"r", "e", "l", "a", "t", "i", "o", "n">>

\* the prototype holds a truthy member of that name: an array and an object
\* are truthy, a number unless 0, a string unless empty
Inherits(proto, key) ==
    /\ proto # NoPayload
    /\ key = KindKey(proto.type)
    /\ CASE proto.type = "number" -> proto.n # 0
         [] proto.type = "checkbox" -> proto.b
         [] proto.type = "url" -> proto.text # <<>>
         [] OTHER -> TRUE

\* properties[key] is truthy: an own key, a member of the prototype line 1599
\* set, or a member of Object.prototype
HasProperty(key) ==
    \/ Has(properties, key)
    \/ Inherits(propertiesProto, key)
    \/ key \in ObjectPrototype

\* if (!title && !properties[titlePropName])
TitleMissing == ~Truthy(req.title) /\ ~HasProperty(TitleKey(props))

\* if (title && titlePropName && !properties[titlePropName])
TitleFromBody ==
    /\ Truthy(req.title)
    /\ TitlePropName(props) # <<>>
    /\ ~HasProperty(TitlePropName(props))

BuildLoopOver_AtOnce == TRUE
\* for (const [k, v] of Object.entries(normalizedFields)) has gone through
\* every entry
BuildLoopOver == fi > Len(normalizedFields)

\* lines 1602-1612: ensure a title on create
UpTitleCheck ==
    /\ pc = "build"
    /\ BuildLoopOver
    /\ IF PageId = <<>> /\ TitleMissing
       THEN /\ res' = [NoRes EXCEPT !.sent = TRUE, !.status = 400,
                                    !.error = "title_required_on_create"]
            /\ pc' = "done"
            /\ properties' = properties
       ELSE IF PageId = <<>> /\ TitleFromBody /\ StringThrows(req.title)
       THEN \* String(title) of line 1610 raises: the catch block of lines
            \* 1643-1647, err.response being undefined
            /\ res' = Failed(NoRes.upstream)
            /\ pc' = "done"
            /\ properties' = properties
       ELSE /\ properties' =
                  IF PageId = <<>> /\ TitleFromBody
                  THEN Put(properties, TitlePropName(props),
                           Payload("title", StringOf(req.title), <<>>, <<>>, 0, FALSE))
                  ELSE properties
            /\ pc' = "write"
            /\ res' = res
    /\ UNCHANGED <<req, reqBody, upsertCreated, props, normalizedFields, fi, ai, out, nullTitles, unresolved,
                   propertiesProto, skips, usersIndex, calls, writePayload, statuses, lookups,
                   suggestDb, writeTarget,
                   schemaResp>>

AfterWrite_GoOn(status) == "append"
\* await doNotion(...) of the write: a thrown error goes to the catch block
AfterWrite(status) == IF status = 200 THEN "append" ELSE "done"

\* lines 1621-1623 and 1633: the PATCH of the page, or the POST of a new page
UpWrite ==
    /\ pc = "write"
    /\ calls' = Append(calls, IF PageId # <<>> THEN "PATCH_PAGE" ELSE "POST_PAGE")
    /\ writeTarget' = PageId
    /\ writePayload' = properties
    /\ \E status \in RemoteStatuses :
          /\ statuses' = Append(statuses, status)
          /\ pc' = AfterWrite(status)
          /\ res' = IF status = 200 THEN res ELSE Failed(status)
          /\ upsertCreated' = IF PageId = <<>> /\ status = 200
                              THEN upsertCreated + 1 ELSE upsertCreated
    /\ UNCHANGED <<req, reqBody, props, normalizedFields, fi, ai, out, nullTitles, unresolved,
                   properties, propertiesProto, skips, usersIndex, lookups, suggestDb,
                   schemaResp>>

\* lines 1614-1619, 1624-1630 and 1634-1640: append the content blocks, if any,
\* and answer
UpAppend ==
    /\ pc = "append"
    /\ IF BlocksThrow(req.content)
       THEN \* the catch block of lines 1643-1647, err.response being undefined
            /\ res' = Failed(NoRes.upstream)
            /\ UNCHANGED <<calls, statuses>>
       ELSE IF BlockCount(req.content) = 0
       THEN /\ res' = Success(IF PageId # <<>> THEN "update" ELSE "create")
            /\ UNCHANGED <<calls, statuses>>
       ELSE /\ calls' = Append(calls, "PATCH_BLOCKS")
            /\ \E status \in RemoteStatuses :
                  /\ statuses' = Append(statuses, status)
                  /\ res' = IF status = 200
                            THEN Success(IF PageId # <<>> THEN "update" ELSE "create")
                            ELSE Failed(status)
    /\ pc' = "done"
    /\ UNCHANGED <<req, reqBody, upsertCreated, props, normalizedFields, fi, ai, out, nullTitles, unresolved,
                   properties, propertiesProto, skips, usersIndex, writePayload, lookups, suggestDb,
                   writeTarget,
                   schemaResp>>

\* the bodies of the request made twice: updates of one page, and creates of
\* a page with content
RepeatBodies ==
    {Body(<<"t", "a", "s", "k", "s">>, <<"p", "g", "1">>, VUndef, fields, NoContent) :
        fields \in FieldLists(MaxFields - 1)}
    \cup
    {Body(<<"t", "a", "s", "k", "s">>, <<>>, VStr(<<"T", "0">>), fields, Content(<<"h", "i">>, <<>>)) :
        fields \in {<<>>, <<Field(K_Points, VNum(3))>>}}

\* the first of the two requests arrives, with one of the bodies
Arrives(bodies) ==
    /\ pc = "idle"
    /\ rpRun = 0
    /\ rpRun' = 1
    /\ \E body \in bodies :
          /\ Received(body)
          /\ rpBody' = body
    /\ UNCHANGED <<props, normalizedFields, fi, ai, out, nullTitles, unresolved,
                   properties, propertiesProto, skips, usersIndex, upsertCreated, calls, writePayload, statuses,
                   lookups, suggestDb, writeTarget, schemaResp, rpFirst>>

UpFirst == Arrives(RepeatBodies)

\* the bodies of a request that runs beside other requests: updates and
\* creates with fields of the kinds select, number, relation (one title to
\* resolve) and formula, and with a people field
ConcurrentBodies ==
    {Body(<<"t", "a", "s", "k", "s">>, <<"p", "g", "1">>, VStr(<<"T", "0">>), fields, NoContent) :
        fields \in {<<Field(K_Status, VStr(<<"O", "P", "E", "N">>)), Field(K_Points, VNum(3))>>,
                    <<Field(K_Calc, VStr(<<"x">>)), Field(K_Status, VStr(<<"z", "z", "z">>))>>,
                    <<Field(K_Points, VNum(3)), Field(K_Owner, VStr(<<"a", "@", "x">>))>>}}
    \cup
    {Body(<<"t", "a", "s", "k", "s">>, <<>>, VStr(<<"T", "0">>),
          <<Field(K_Roadmap, VStr(<<"P", "1">>))>>, NoContent)}

UcFirst == Arrives(ConcurrentBodies)

\* the request in flight beside the first: it has a people field and goes
\* through lines 1516-1520 at any await of the first; its other steps touch
\* its own locals only
OtherRequests == {2}

\* the answer to the GET /v1/users of another request: a status, and with 200
\* its directory, which comes in one page
OtherPage(r) ==
    \E status \in RemoteStatuses, results \in UserPages :
        PeAnswer(r, status, results, FALSE)

IndexAfterRequest_Cleared(idx) == [set |-> TRUE, byEmail |-> <<>>]
\* globalThis.__solUsersIndex is a property of the global object: what one
\* request assigned is what the next request finds
IndexAfterRequest(idx) == idx

\* the first request is over and the same body arrives again: the handler is
\* entered anew, with new locals
UpAgain ==
    /\ pc = "done"
    /\ rpRun = 1
    /\ rpRun' = 2
    /\ rpFirst' = First(TRUE, props, lookups, calls, writePayload, writeTarget, res,
                        statuses, usersIndex)
    /\ Received(rpBody)
    /\ props' = <<>>
    /\ normalizedFields' = <<>>
    /\ fi' = 0
    /\ ai' = 0
    /\ out' = <<>>
    /\ nullTitles' = <<>>
    /\ unresolved' = <<>>
    /\ properties' = <<>>
    /\ propertiesProto' = NoPayload
    /\ skips' = <<>>
    /\ calls' = <<>>
    /\ writePayload' = <<>>
    /\ statuses' = <<>>
    /\ lookups' = <<>>
    /\ suggestDb' = <<>>
    /\ writeTarget' = <<>>
    /\ schemaResp' = <<>>
    /\ usersIndex' = IndexAfterRequest(usersIndex)
    /\ upsertCreated' = upsertCreated
    /\ rpBody' = rpBody

DnIdle ==
    /\ dnPc = "idle"
    /\ attempt = 0
    /\ lastErr = NoErr
    /\ pendingErr = NoErr
    /\ requests = 0
    /\ sleeps = 0
    /\ waited = 0
    /\ waits = <<>>
    /\ responses = <<>>
    /\ dnResult = Pending

Init == env \in Envs /\ DnIdle /\ UpIdle /\ RsIdle /\ BpIdle /\ GiIdle /\ PeIdle /\ RpIdle /\ AuIdle /\ DlIdle

Next ==
    \/ UpReceive /\ UNCHANGED <<env, dnVars, rsVars, bpVars, giVars, peVars, rpVars, auVars, dlVars>>
    \/ UpFetchSchema /\ UNCHANGED <<env, dnVars, rsVars, bpVars, giVars, peVars, rpVars, auVars, dlVars>>
    \/ UpNormalize /\ UNCHANGED <<env, dnVars, rsVars, bpVars, giVars, peVars, rpVars, auVars, dlVars>>
    \/ UpCheckUnresolved /\ UNCHANGED <<env, dnVars, rsVars, bpVars, giVars, peVars, rpVars, auVars, dlVars>>
    \/ UpSuggestSchema /\ UNCHANGED <<env, dnVars, rsVars, bpVars, giVars, peVars, rpVars, auVars, dlVars>>
    \/ UpSuggestQuery /\ UNCHANGED <<env, dnVars, rsVars, bpVars, giVars, peVars, rpVars, auVars, dlVars>>
    \/ UpFetchUsers /\ UNCHANGED <<env, dnVars, rsVars, bpVars, giVars, rpVars, auVars, dlVars>>
    \/ UpUsersPage /\ UNCHANGED <<env, dnVars, rsVars, bpVars, giVars, rpVars, auVars, dlVars>>
    \/ UpBuildField /\ UNCHANGED <<env, dnVars, rsVars, bpVars, giVars, peVars, rpVars, auVars, dlVars>>
    \/ UpTitleCheck /\ UNCHANGED <<env, dnVars, rsVars, bpVars, giVars, peVars, rpVars, auVars, dlVars>>
    \/ UpWrite /\ UNCHANGED <<env, dnVars, rsVars, bpVars, giVars, peVars, rpVars, auVars, dlVars>>
    \/ UpAppend /\ UNCHANGED <<env, dnVars, rsVars, bpVars, giVars, peVars, rpVars, auVars, dlVars>>

Spec == Init /\ [][Next]_vars

\* one resolveTitleToId call, for each database and title asked for
InitResolve ==
    /\ env = EnvFull
    /\ DnIdle
    /\ UpIdle
    /\ BpIdle
    /\ GiIdle
    /\ PeIdle
    /\ RpIdle
    /\ AuIdle
    /\ DlIdle
    /\ rsPc = "schema"
    /\ rsDb \in {RoadmapDbId, TasksDbId}
    /\ rsTitle \in LookupTitles
    /\ rsTitleProp = <<>>
    /\ rsMatch = NoPage
    /\ rsCalls = <<>>
    /\ rsSeen = <<>>
    /\ rsResult = RsPending

NextResolve ==
    \/ RsSchema /\ UNCHANGED <<env, dnVars, upVars, bpVars, giVars, peVars, rpVars, auVars, dlVars>>
    \/ RsExact /\ UNCHANGED <<env, dnVars, upVars, bpVars, giVars, peVars, rpVars, auVars, dlVars>>
    \/ RsContains /\ UNCHANGED <<env, dnVars, upVars, bpVars, giVars, peVars, rpVars, auVars, dlVars>>
    \/ RsSearch /\ UNCHANGED <<env, dnVars, upVars, bpVars, giVars, peVars, rpVars, auVars, dlVars>>

SpecResolve == InitResolve /\ [][NextResolve]_vars

\* one buildProp call, for each descriptor and value
InitBuildProp ==
    /\ env = EnvFull
    /\ DnIdle
    /\ UpIdle
    /\ RsIdle
    /\ GiIdle
    /\ PeIdle
    /\ RpIdle
    /\ AuIdle
    /\ DlIdle
    /\ bpDef \in BpDefs
    /\ bpValue \in BpValues
    /\ bpBuilt = NotBuilt

NextBuildProp ==
    \/ BpCheck /\ UNCHANGED <<env, dnVars, upLocals, upsertCreated, rsVars, giVars, rpVars, auVars, dlVars>>
    \/ BpPage /\ UNCHANGED <<env, dnVars, upLocals, upsertCreated, rsVars, giVars, rpVars, auVars, dlVars>>
    \/ BpBuild /\ UNCHANGED <<env, dnVars, upLocals, upsertCreated, rsVars, giVars, rpVars, auVars, dlVars>>

SpecBuildProp == InitBuildProp /\ [][NextBuildProp]_vars

\* concurrent /upsert_page requests with a people field, in a fresh process
InitPeople ==
    /\ env = EnvFull
    /\ DnIdle
    /\ UpIdle
    /\ RsIdle
    /\ BpIdle
    /\ GiIdle
    /\ PeIdle
    /\ RpIdle
    /\ AuIdle
    /\ DlIdle

NextPeople ==
    \E r \in PeRequests :
        \/ PeCheck(r) /\ UNCHANGED <<env, dnVars, upLocals, upsertCreated, rsVars, bpVars, giVars, rpVars, auVars, dlVars>>
        \/ PePage(r) /\ UNCHANGED <<env, dnVars, upLocals, upsertCreated, rsVars, bpVars, giVars, rpVars, auVars, dlVars>>

SpecPeople == InitPeople /\ [][NextPeople]_vars

\* one request made twice, the second after the first was answered
InitRepeat ==
    /\ env = EnvFull
    /\ DnIdle
    /\ UpIdle
    /\ RsIdle
    /\ BpIdle
    /\ GiIdle
    /\ PeIdle
    /\ RpIdle
    /\ AuIdle
    /\ DlIdle

NextRepeat ==
    \/ UpFirst /\ UNCHANGED <<env, dnVars, rsVars, bpVars, giVars, peVars, auVars, dlVars>>
    \/ UpAgain /\ UNCHANGED <<env, dnVars, rsVars, bpVars, giVars, peVars, auVars, dlVars>>
    \/ UpFetchSchema /\ UNCHANGED <<env, dnVars, rsVars, bpVars, giVars, peVars, rpVars, auVars, dlVars>>
    \/ UpNormalize /\ UNCHANGED <<env, dnVars, rsVars, bpVars, giVars, peVars, rpVars, auVars, dlVars>>
    \/ UpCheckUnresolved /\ UNCHANGED <<env, dnVars, rsVars, bpVars, giVars, peVars, rpVars, auVars, dlVars>>
    \/ UpSuggestSchema /\ UNCHANGED <<env, dnVars, rsVars, bpVars, giVars, peVars, rpVars, auVars, dlVars>>
    \/ UpSuggestQuery /\ UNCHANGED <<env, dnVars, rsVars, bpVars, giVars, peVars, rpVars, auVars, dlVars>>
    \/ UpFetchUsers /\ UNCHANGED <<env, dnVars, rsVars, bpVars, giVars, rpVars, auVars, dlVars>>
    \/ UpUsersPage /\ UNCHANGED <<env, dnVars, rsVars, bpVars, giVars, rpVars, auVars, dlVars>>
    \/ UpBuildField /\ UNCHANGED <<env, dnVars, rsVars, bpVars, giVars, peVars, rpVars, auVars, dlVars>>
    \/ UpTitleCheck /\ UNCHANGED <<env, dnVars, rsVars, bpVars, giVars, peVars, rpVars, auVars, dlVars>>
    \/ UpWrite /\ UNCHANGED <<env, dnVars, rsVars, bpVars, giVars, peVars, rpVars, auVars, dlVars>>
    \/ UpAppend /\ UNCHANGED <<env, dnVars, rsVars, bpVars, giVars, peVars, rpVars, auVars, dlVars>>

SpecRepeat == InitRepeat /\ [][NextRepeat]_vars

\* one request made twice while other requests are in flight: at every await
\* of the handler a step of another request can run
NextConcurrent ==
    \/ UcFirst /\ UNCHANGED <<env, dnVars, rsVars, bpVars, giVars, peVars, auVars, dlVars>>
    \/ UpAgain /\ UNCHANGED <<env, dnVars, rsVars, bpVars, giVars, peVars, auVars, dlVars>>
    \/ UpFetchSchema /\ UNCHANGED <<env, dnVars, rsVars, bpVars, giVars, peVars, rpVars, auVars, dlVars>>
    \/ UpNormalize /\ UNCHANGED <<env, dnVars, rsVars, bpVars, giVars, peVars, rpVars, auVars, dlVars>>
    \/ UpCheckUnresolved /\ UNCHANGED <<env, dnVars, rsVars, bpVars, giVars, peVars, rpVars, auVars, dlVars>>
    \/ UpSuggestSchema /\ UNCHANGED <<env, dnVars, rsVars, bpVars, giVars, peVars, rpVars, auVars, dlVars>>
    \/ UpSuggestQuery /\ UNCHANGED <<env, dnVars, rsVars, bpVars, giVars, peVars, rpVars, auVars, dlVars>>
    \/ UpFetchUsers /\ UNCHANGED <<env, dnVars, rsVars, bpVars, giVars, rpVars, auVars, dlVars>>
    \/ UpUsersPage /\ UNCHANGED <<env, dnVars, rsVars, bpVars, giVars, rpVars, auVars, dlVars>>
    \/ UpBuildField /\ UNCHANGED <<env, dnVars, rsVars, bpVars, giVars, peVars, rpVars, auVars, dlVars>>
    \/ UpTitleCheck /\ UNCHANGED <<env, dnVars, rsVars, bpVars, giVars, peVars, rpVars, auVars, dlVars>>
    \/ UpWrite /\ UNCHANGED <<env, dnVars, rsVars, bpVars, giVars, peVars, rpVars, auVars, dlVars>>
    \/ UpAppend /\ UNCHANGED <<env, dnVars, rsVars, bpVars, giVars, peVars, rpVars, auVars, dlVars>>
    \/ \E r \in OtherRequests :
          PeCheck(r) /\ UNCHANGED <<env, dnVars, upLocals, upsertCreated, rsVars, bpVars, giVars, rpVars, auVars, dlVars>>
    \/ \E r \in OtherRequests :
          OtherPage(r) /\ UNCHANGED <<env, dnVars, upLocals, upsertCreated, rsVars, bpVars, giVars, rpVars, auVars, dlVars>>

SpecConcurrent == InitRepeat /\ [][NextConcurrent]_vars

\* two getNotionDbId calls with one key, for each configuration and key
InitDbId ==
    /\ env \in DbEnvs
    /\ DnIdle
    /\ UpIdle
    /\ RsIdle
    /\ BpIdle
    /\ PeIdle
    /\ RpIdle
    /\ AuIdle
    /\ DlIdle
    /\ giKey \in DbKeys
    /\ giCalls = 0
    /\ giPrev = GiPending
    /\ giOut = GiPending

NextDbId == GiCall /\ UNCHANGED <<env, dnVars, upVars, rsVars, bpVars, peVars, rpVars, auVars, dlVars>>

SpecDbId == InitDbId /\ [][NextDbId]_vars

----------------------------------------------------------------------------
\* Claims about getNotionDbId

\* the first configured id in the order docs, tasks, roadmap ("" when none is)
FirstConfigured ==
    IF env.NOTION_DATABASE_ID # <<>> THEN env.NOTION_DATABASE_ID
    ELSE IF env.TASK_TRACKER_DATABASE_ID # <<>> THEN env.TASK_TRACKER_DATABASE_ID
    ELSE env.ROADMAP_DATABASE_ID

\* C25: a recognised key, in any case, gives that database's configured id
\* (empty when it is not configured, never another database's id); any other
\* key gives the first configured id in the order docs, tasks, roadmap; a
\* repeated call gives the same id, and no call changes the configuration.
C25_DbKeyMapping ==
    /\ [](giOut.done =>
            LET key == toLowerCase(giKey) IN
            CASE key \in {<<"d", "o", "c", "s">>, <<"d", "o", "c", "u", "m", "e", "n", "t", "s">>, <<"d", "o", "c", "u", "m", "e", "n", "t">>} ->
                    giOut.id = env.NOTION_DATABASE_ID
              [] key \in {<<"r", "o", "a", "d", "m", "a", "p">>, <<"r", "o", "a", "d">>} -> giOut.id = env.ROADMAP_DATABASE_ID
              [] key \in {<<"t", "a", "s", "k", "s">>, <<"t", "a", "s", "k">>, <<"t", "r", "a", "c", "k", "e", "r">>} ->
                    giOut.id = env.TASK_TRACKER_DATABASE_ID
              [] OTHER -> giOut.id = FirstConfigured)
    /\ [](giCalls = 2 => giOut = giPrev)
    /\ [][env' = env]_vars

C25_Witness ==
    /\ giCalls = 2
    /\ giKey = <<"R", "O", "A", "D">>
    /\ env.NOTION_DATABASE_ID # <<>>
    /\ env.ROADMAP_DATABASE_ID = <<>>
    /\ giOut = GiReturned(<<>>)

----------------------------------------------------------------------------
\* Claims about /upsert_page

WriteOps == {"POST_PAGE", "PATCH_PAGE", "PATCH_BLOCKS"}
Issued(ops) == \E i \in 1..Len(calls) : calls[i] \in ops
Answered == pc = "done" /\ res.sent

\* C1: once the unresolved list is non-empty, the request goes to the
\* suggestions, can always go on until it is answered, and ends with
\* relation_title_not_found; no POST or PATCH of the record and no content
\* append is issued.
C1_UnresolvedAborts ==
    unresolved # <<>> =>
        /\ pc \in {"suggest", "suggest_query", "done"}
        /\ pc # "done" => ENABLED (UpSuggestSchema \/ UpSuggestQuery)
        /\ ~Issued(WriteOps)
        /\ pc = "done" =>
              (res.status = 400 /\ res.error = "relation_title_not_found"
               /\ res.unresolved = unresolved)

C1_Witness ==
    /\ Answered
    /\ unresolved # <<>>
    /\ res.error = "relation_title_not_found"
    /\ Len(req.fields) = 2

\* the titles (not identifier-shaped) that the resolver returned null for
RECURSIVE LostTitles(_)
LostTitles(list) ==
    IF list = <<>> THEN <<>>
    ELSE Maybe(~uuidReTest(toDashedUuid(Head(list).value)), Head(list))
         \o LostTitles(Tail(list))

Reported(entry) ==
    \E j \in 1..Len(unresolved) :
        /\ unresolved[j].property = entry.property
        /\ \E x \in 1..Len(AsArray(unresolved[j].value)) :
              AsArray(unresolved[j].value)[x] = IStr(entry.value)

\* C2: after normalization every title the resolver returned null for is in
\* `unresolved`, and no write is issued without it.
C2_NullTitlesSurfaced ==
    pc \notin {"idle", "schema", "normalize"} =>
        \A i \in 1..Len(LostTitles(nullTitles)) :
            /\ Reported(LostTitles(nullTitles)[i])
            /\ ~Issued(WriteOps)

\* a field the claim calls B: not in the fetched schema, or of an unsupported
\* kind, or of a kind other than title and relation with a value buildProp skips
IsSoftField(e) ==
    \/ ~Has(props, e.k)
    \/ Get(props, e.k).type \notin BuiltKinds
    \/ /\ Get(props, e.k).type \notin {"title", "relation"}
       /\ buildProp(props, e.k, e.v, usersIndex).tag = "skip"

\* a field the claim calls A: buildProp builds a payload for it
IsValidField(e) == buildProp(props, e.k, e.v, usersIndex).tag = "value"

\* C3: a request with a field B, its other fields valid (none of them an
\* unresolved relation) and a title given, whose remote calls all succeed, is
\* answered ok with B in `skipped` and every valid field in the write; B is
\* never the reason of a failure.
C3_PartialFailureIsolation ==
    (Answered /\ ~res.simulating /\ res.upstream = -1 /\ Truthy(req.title)
       /\ HasTitleProp(props)
       /\ (\E b \in 1..Len(req.fields) : IsSoftField(req.fields[b]))
       /\ (\A a \in 1..Len(req.fields) :
             IsSoftField(req.fields[a]) \/ IsValidField(normalizedFields[a]))
       /\ (\A u \in 1..Len(unresolved) :
             IsSoftField(Field(unresolved[u].property, unresolved[u].value))))
    => /\ res.ok
       /\ \A i \in 1..Len(req.fields) :
             IF IsSoftField(req.fields[i])
             THEN Has(res.skipped, req.fields[i].k)
             ELSE Has(writePayload, req.fields[i].k)

\* no title-kind property of the schema was populated from the fields
TitleNotPopulated ==
    ~HasTitleProp(props) \/ ~Has(properties, TitlePropName(props))

\* C4 as stated: a create request with no title and no title-kind field
\* populated, which no remote failure and no unresolved relation ended before,
\* is answered title_required_on_create, with no write call.
C4_Original_TitleRequiredOnCreate ==
    (Answered /\ ~res.simulating /\ res.upstream = -1 /\ unresolved = <<>>
       /\ PageId = <<>> /\ ~Truthy(req.title) /\ TitleNotPopulated)
    => (res.error = "title_required_on_create" /\ ~Issued(WriteOps))

\* C5: title_required is answered only on creation and only for the title
\* field; an update is never failed by an empty title value.
C5_RejectedOnlyOnCreate ==
    (Answered /\ res.error = "title_required") =>
        /\ PageId = <<>>
        /\ Has(props, res.field)
        /\ Get(props, res.field).type = "title"

\* C6: every POST of a page carries a title property; with no title-kind
\* property in the schema no page is created.
C6_CreateCarriesTitle ==
    Issued({"POST_PAGE"}) =>
        \E i \in 1..Len(writePayload) :
            writePayload[i].v.type = "title" /\ writePayload[i].v.text # <<>>

\* a non-blank string: an identifier given by the caller
HasText(v) == v.t = "str" /\ trim(v.s) # <<>>

\* the existing-record identifier of the request, as C11 names it: body.page_id,
\* or content.meta.page_id / content.meta.id when body.page_id is empty
GivenIdentifier ==
    LET meta == req.content.meta IN
    IF trim(req.page_id) # <<>> THEN trim(req.page_id)
    ELSE IF HasText(Member(meta, K_page_id)) THEN trim(Member(meta, K_page_id).s)
    ELSE IF HasText(Member(meta, K_id)) THEN trim(Member(meta, K_id).s)
    ELSE <<>>

\* C11: a request answered ok has mode update exactly when it carries an
\* existing-record identifier (body.page_id, or content.meta.page_id or
\* content.meta.id when body.page_id is empty) and mode create otherwise; an
\* update has issued a PATCH of that page and no POST, a create a POST and no
\* PATCH.
C11_ModeFollowsIdentifier ==
    (Answered /\ res.ok /\ ~res.simulating) =>
        /\ res.mode \in {"update", "create"}
        /\ res.mode = "update" <=> GivenIdentifier # <<>>
        /\ res.mode = "update" =>
              /\ Issued({"PATCH_PAGE"})
              /\ ~Issued({"POST_PAGE"})
              /\ writeTarget = GivenIdentifier
        /\ res.mode = "create" =>
              /\ Issued({"POST_PAGE"})
              /\ ~Issued({"PATCH_PAGE"})

\* the positions of `calls` that hold a call of ops
CallsOf(ops) == {i \in 1..Len(calls) : calls[i] \in ops}

\* C12: a request issues at most one POST or PATCH of the record, never both,
\* and an ok answer with a mode is sent only when that call has succeeded.
C12_SingleWrite ==
    /\ Cardinality(CallsOf({"POST_PAGE", "PATCH_PAGE"})) <= 1
    /\ (res.sent /\ res.ok /\ ~res.simulating) =>
          /\ res.mode \in {"update", "create"}
          /\ \E i \in CallsOf({"POST_PAGE", "PATCH_PAGE"}) : statuses[i] = 200

C12_Witness ==
    /\ Answered
    /\ res.ok
    /\ res.mode = "create"
    /\ Cardinality(CallsOf({"POST_PAGE"})) = 1
    /\ CallsOf({"PATCH_PAGE"}) = {}
    /\ \A i \in CallsOf({"POST_PAGE"}) : statuses[i] = 200

\* the place of a remote call in the order of C13
Rank(call) ==
    CASE call = "GET_DB" -> 1
      [] call = "RESOLVE" -> 2
      [] call \in {"GET_SUGGEST_DB", "QUERY_SUGGEST_DB", "GET_USERS"} -> 3
      [] call \in {"POST_PAGE", "PATCH_PAGE"} -> 4
      [] OTHER -> 5

\* every field of normalizedFields went through buildProp, and left a property
\* or a skip (but a field named "__proto__", whose assignment creates no key)
AllBuilt ==
    /\ fi > Len(normalizedFields)
    /\ \A i \in 1..Len(normalizedFields) :
          \/ Has(properties, normalizedFields[i].k)
          \/ Has(skips, normalizedFields[i].k)
          \/ normalizedFields[i].k = K_proto

\* C13: the remote calls of a request are issued one after the other (each has
\* ended when the next is issued) in the order schema fetch, resolutions,
\* calls of the property build, write, append; a write is issued only after
\* the schema fetch succeeded and every field was built, and an append only
\* right after a write that succeeded.
C13_CallOrder ==
    /\ Len(statuses) = Len(calls)
    /\ \A i, j \in 1..Len(calls) : i < j => Rank(calls[i]) <= Rank(calls[j])
    /\ \A i \in 1..Len(calls) : (calls[i] = "GET_DB") <=> (i = 1)
    /\ \A i \in CallsOf({"POST_PAGE", "PATCH_PAGE"}) :
          /\ statuses[1] = 200
          /\ AllBuilt
    /\ \A i \in CallsOf({"PATCH_BLOCKS"}) :
          /\ i > 1
          /\ calls[i - 1] \in {"POST_PAGE", "PATCH_PAGE"}
          /\ statuses[i - 1] = 200

C13_Witness ==
    /\ Answered
    /\ calls = <<"GET_DB", "RESOLVE", "GET_USERS", "POST_PAGE", "PATCH_BLOCKS">>

\* C14: a remote call of a request that fails with a status other than 409/429
\* (404 here) is the last call of the request, which is answered with the
\* error response that carries that status.
C14_UpstreamFatalPropagated ==
    \A i \in 1..Len(statuses) :
        statuses[i] = 404 =>
            /\ i = Len(statuses)
            /\ pc = "done"
            /\ res.status = 500
            /\ res.error = "Failed to upsert page"
            /\ res.upstream = 404

----------------------------------------------------------------------------
\* Claims about buildProp

\* the option names that equal name ignoring case
Spellings(options, name) ==
    {options[i] : i \in {j \in 1..Len(options) : toLowerCase(options[j]) = toLowerCase(name)}}

\* C15: a select or status value that equals an option name ignoring case is
\* applied under the name as the schema spells it; a value that matches no
\* option is skipped as unknown_option with the whole option list.
C15_SelectSchemaSpelling ==
    (bpBuilt # NotBuilt /\ bpDef.type \in {"select", "status"} /\ bpBuilt.tag # "throw") =>
        IF Spellings(bpDef.options, StringOf(bpValue)) # {}
        THEN /\ bpBuilt.tag = "value"
             /\ bpBuilt.payload.type = bpDef.type
             /\ bpBuilt.payload.text \in Spellings(bpDef.options, StringOf(bpValue))
        ELSE bpBuilt = Skip("unknown_option", bpDef.options, "")

\* the element x of a multi_select value matches an option ignoring case
MatchesOption(x) ==
    \E i \in 1..Len(bpDef.options) :
        toLowerCase(bpDef.options[i]) = toLowerCase(ItemToString(x))

\* C16: a multi_select value is applied with exactly its elements that match
\* an option, in the order of the input; it is skipped, with the option list,
\* exactly when no element matches.
C16_MultiSelectFilter ==
    (bpBuilt # NotBuilt /\ bpDef.type = "multi_select") =>
        LET elems == AsArray(bpValue)
            matching == SelectSeq(elems, MatchesOption)
        IN IF matching = <<>>
           THEN bpBuilt = Skip("unknown_option", bpDef.options, "")
           ELSE /\ bpBuilt.tag = "value"
                /\ bpBuilt.payload.type = "multi_select"
                /\ bpBuilt.payload.elems = matching

\* C27: every buildProp call ends with one structured outcome, an applied
\* payload, a skip with its reason or a rejection, and never with an exception;
\* a kind outside the switch is skipped as unsupported_type.
C27_StructuredOutcome ==
    bpBuilt # NotBuilt =>
        /\ bpBuilt.tag \in {"value", "skip", "error"}
        /\ bpDef.type \notin BuiltKinds =>
              bpBuilt = Skip("unsupported_type", <<>>, bpDef.type)

\* a string that starts as an ISO 8601 calendar date, YYYY-MM-DD
IsIsoDate(s) ==
    /\ Len(s) >= 10
    /\ \A i \in {1, 2, 3, 4, 6, 7, 9, 10} : (\E d \in 1..10 : Digits[d] = s[i])
    /\ s[5] = "-"
    /\ s[8] = "-"

\* C31: a value given for a date property is applied when it is an ISO date
\* string or an object with a start member; every other value, a string that is
\* not an ISO date and an object without start included, is skipped as
\* invalid_date.
C31_OnlyDatesApplied ==
    (bpDef.type = "date" /\ bpBuilt # NotBuilt) =>
        IF \/ (bpValue.t = "str" /\ IsIsoDate(bpValue.s))
           \/ Truthy(MemberOf(bpValue, "start"))
        THEN bpBuilt.tag = "value" /\ bpBuilt.payload.type = "date"
        ELSE bpBuilt = Skip("invalid_date", <<>>, "")

\* C24: when an update is made twice with the same body, and the second request
\* is given the schema and the resolver answers the first was given, the second
\* PATCH goes to the same page with the same properties as the first.
C24_IdempotentUpdate ==
    (/\ rpRun = 2
     /\ Issued({"PATCH_PAGE"})
     /\ \E i \in 1..Len(rpFirst.calls) : rpFirst.calls[i] = "PATCH_PAGE"
     /\ schemaResp = rpFirst.props
     /\ lookups = rpFirst.lookups)
    => /\ writePayload = rpFirst.payload
       /\ writeTarget = rpFirst.target

C24_Witness ==
    /\ rpRun = 2
    /\ pc = "done"
    /\ res.ok
    /\ \E i \in 1..Len(rpFirst.calls) : rpFirst.calls[i] = "PATCH_PAGE"
    /\ lookups # <<>>
    /\ lookups = rpFirst.lookups
    /\ writePayload # <<>>
    /\ writePayload = rpFirst.payload

\* C26: the first remote call of every request is the fetch of the target
\* database's schema, and what the request builds and skips is what buildProp
\* gives under the schema that fetch returned, also when an earlier request was
\* given another schema.
C26_LiveSchemaPerRequest ==
    /\ calls # <<>> => calls[1] = "GET_DB"
    /\ (calls # <<>> /\ statuses[1] = 200) =>
          /\ props = schemaResp
          /\ \A i \in 1..Len(skips) :
                skips[i].v = SkipEntry(buildProp(schemaResp, skips[i].k,
                                                 Get(normalizedFields, skips[i].k),
                                                 usersIndex))
          /\ \A i \in 1..Len(properties) :
                Has(normalizedFields, properties[i].k) =>
                    properties[i].v = buildProp(schemaResp, properties[i].k,
                                                Get(normalizedFields, properties[i].k),
                                                usersIndex).payload

C26_Witness ==
    /\ rpRun = 2
    /\ pc = "done"
    /\ res.ok
    /\ rpFirst.payload # <<>>
    /\ rpFirst.props # schemaResp
    /\ writePayload = <<>>
    /\ skips # <<>>

\* the request has a field that the schema gives the kind people
PeopleAsked ==
    \E i \in 1..Len(normalizedFields), j \in 1..Len(props) :
        props[j].k = normalizedFields[i].k /\ props[j].v.type = "people"

\* the states another request can leave the people index in
Indexes == {NoUsersIndex, Directory, [set |-> TRUE, byEmail |-> <<>>]}

\* what the remote store answered to the resolveTitleToId calls of a request
LookupAnswers(list) ==
    [i \in 1..Len(list) |-> [id |-> list[i].id, upstream |-> list[i].upstream]]

\* two sequences agree as far as both go
Agree(s, t) == \A i \in 1..Min(Len(s), Len(t)) : s[i] = t[i]

\* the second run of the request got the remote answers the first run got, as
\* far as both runs asked: the schema, what the i-th remote call ended with,
\* the page the i-th title resolved to, whether the suggestions database has
\* a title property (it is queried when it has), and the suggestions
SameRemoteResponses ==
    /\ props = rpFirst.props
    /\ Agree(statuses, rpFirst.statuses)
    /\ Agree(LookupAnswers(lookups), LookupAnswers(rpFirst.lookups))
    /\ Issued({"QUERY_SUGGEST_DB"}) <=>
          \E i \in 1..Len(rpFirst.calls) : rpFirst.calls[i] = "QUERY_SUGGEST_DB"
    /\ (res.hasSuggestions /\ rpFirst.res.hasSuggestions) =>
          res.suggestions = rpFirst.res.suggestions

\* the second run made the calls and the write of the first and was answered
\* as the first was
SameOutcome ==
    /\ res = rpFirst.res
    /\ calls = rpFirst.calls
    /\ lookups = rpFirst.lookups
    /\ writePayload = rpFirst.payload
    /\ writeTarget = rpFirst.target

\* C23: with other requests in flight, no step of any request changes the
\* configuration (and with it the database-key mapping); the people index
\* changes only in the step in which the directory fetch of a request with a
\* people field ends; a request without people fields makes no directory
\* request, builds the field its loop has just gone through the same whatever
\* the index holds, and, run a second time with the same remote answers
\* while the other requests are at other steps and the index may hold
\* something else, makes the same calls and the same write and gets the same
\* answer.
C23_OnlyPeopleIndexShared ==
    /\ [][env' = env]_vars
    /\ [][usersIndex' # usersIndex =>
            \E r \in PeRequests :
                /\ pePc[r] = "fetching"
                /\ pePc'[r] = "done"
                /\ r = 1 => (PeopleAsked /\ calls' = Append(calls, "GET_USERS"))]_vars
    /\ [](~PeopleAsked =>
            /\ ~Issued({"GET_USERS"})
            /\ pc # "users"
            /\ (pc = "build" /\ fi > 1) =>
                  \A idx \in Indexes \cup {usersIndex} :
                      buildProp(props, normalizedFields[fi - 1].k,
                                normalizedFields[fi - 1].v, idx)
                      = buildProp(props, normalizedFields[fi - 1].k,
                                  normalizedFields[fi - 1].v, usersIndex)
            /\ (rpRun = 2 /\ pc = "done" /\ SameRemoteResponses) => SameOutcome)

\* the first run went through with no people index; during the second run,
\* made with the same remote answers, another request fetched the directory
\* and set the index
C23_Witness ==
    /\ rpRun = 2
    /\ pc = "done"
    /\ res.ok
    /\ ~res.simulating
    /\ ~PeopleAsked
    /\ Len(properties) = 2
    /\ Issued({"PATCH_PAGE"})
    /\ SameRemoteResponses
    /\ rpFirst.index = NoUsersIndex
    /\ usersIndex = Directory
    /\ \E r \in OtherRequests : pePc[r] = "done" /\ peUsed[r] = Directory

\* C22: whatever the interleaving of the requests, listAllUsers builds the
\* people index at most once in the life of the process, and the index, once
\* set, is never assigned again.
C22_IndexBuiltOnce ==
    /\ [](Len(peBuilt) <= 1)
    /\ [][usersIndex.set => usersIndex' = usersIndex]_vars

----------------------------------------------------------------------------
\* Claims about relation resolution and suggestions

\* a 32-hex identifier, with or without dashes
IsIdentifier(s) == Len(StripDashes(s)) = 32 /\ AllHex(StripDashes(s))

\* C19: no identifier-shaped string is sent to the resolver, and a relation
\* field given as one identifier string is written as that identifier in
\* dashed form.
C19_IdentifiersBypassResolver ==
    /\ \A i \in 1..Len(lookups) : ~IsIdentifier(lookups[i].title)
    /\ Issued({"POST_PAGE", "PATCH_PAGE"}) =>
          \A i \in 1..Len(req.fields) :
              LET f == req.fields[i] IN
              (f.v.t = "str" /\ IsIdentifier(f.v.s) /\ Has(props, f.k)
                 /\ Get(props, f.k).type = "relation")
              => /\ Has(writePayload, f.k)
                 /\ Get(writePayload, f.k).ids = <<toDashedUuid(f.v.s)>>

\* the unresolved field is a relation to the roadmap or to the tasks database
TargetsKnownDb(u) ==
    \/ IsRoadmapTarget(RelationTarget(u.property))
    \/ IsTasksTarget(RelationTarget(u.property))

\* C20: when the unresolved fields are relations to the roadmap or the tasks
\* database, the suggestions of the relation_title_not_found answer are asked
\* from the database one of them targets, with at most one query.
C20_SuggestionsFromTargetDb ==
    /\ Cardinality(CallsOf({"QUERY_SUGGEST_DB"})) <= 1
    /\ (suggestDb # <<>> /\ \A u \in 1..Len(unresolved) : TargetsKnownDb(unresolved[u]))
       => \E u \in 1..Len(unresolved) :
              normId(RelationTarget(unresolved[u].property)) = normId(suggestDb)

----------------------------------------------------------------------------
\* Claims about resolveTitleToId

\* the pages of the search response whose parent is the database asked for
InTargetDb == SelectSeq(rsSeen, LAMBDA p : p.parent # <<>> /\ normId(p.parent) = normId(rsDb))

\* the call made a request of tier op that succeeded and gave no match
TierEmpty(op) ==
    \E i \in 1..Len(rsCalls) :
        /\ rsCalls[i].op = op
        /\ rsCalls[i].status = 200
        /\ IF op = "SEARCH" THEN InTargetDb = <<>> ELSE rsCalls[i].found = <<>>

\* C17: the substring query is issued only after an exact query without a
\* result, the search only after a substring query without a result; an exact
\* query with a result ends the call with that page's id and no further
\* request; for a database with a title property, null is returned only when
\* all three tiers gave no match.
C17_TiersInOrder ==
    /\ \A i \in 1..Len(rsCalls) :
          /\ rsCalls[i].op = "QUERY_CONTAINS" => TierEmpty("QUERY_EQUALS")
          /\ rsCalls[i].op = "SEARCH" =>
                (TierEmpty("QUERY_EQUALS") /\ rsCalls[i - 1] = Request("QUERY_CONTAINS", 200, <<>>))
          /\ (rsCalls[i].op = "QUERY_EQUALS" /\ rsCalls[i].found # <<>>) =>
                /\ i = Len(rsCalls)
                /\ rsPc = "done"
                /\ rsResult = RsReturned(rsCalls[i].found)
    /\ (rsPc = "done" /\ rsResult.id = <<>> /\ rsTitleProp # <<>>) =>
          (TierEmpty("QUERY_EQUALS") /\ TierEmpty("QUERY_CONTAINS") /\ TierEmpty("SEARCH"))

\* the call ended with the answer of a search that succeeded
SearchAnswered ==
    /\ rsPc = "done"
    /\ rsCalls # <<>>
    /\ rsCalls[Len(rsCalls)].op = "SEARCH"
    /\ rsCalls[Len(rsCalls)].status = 200

\* C18 as stated: the search returns a page of the database asked for; one
\* whose title equals the query ignoring case when there is one, the first
\* candidate otherwise.
C18_Original_EqualTitlePreferred ==
    SearchAnswered =>
        LET equal == SelectSeq(InTargetDb,
                               LAMBDA p : toLowerCase(p.title) = toLowerCase(rsTitle))
        IN IF InTargetDb = <<>> THEN rsResult.id = <<>>
           ELSE IF equal # <<>> THEN \E i \in 1..Len(equal) : rsResult.id = equal[i].id
           ELSE rsResult.id = InTargetDb[1].id

\* C18 as amended: the search returns a page of the database asked for (ids
\* compared without dashes and case): the first one in search order whose
\* trimmed title equals the query ignoring case, the first candidate when no
\* title does, null when there is no candidate.
C18_TrimmedTitlePreferred ==
    SearchAnswered =>
        LET equal == SelectSeq(InTargetDb,
                               LAMBDA p : toLowerCase(trim(p.title)) = toLowerCase(rsTitle))
        IN /\ rsResult.id # <<>> =>
                 \E i \in 1..Len(rsSeen) :
                     /\ rsSeen[i].id = rsResult.id
                     /\ normId(rsSeen[i].parent) = normId(rsDb)
           /\ IF InTargetDb = <<>> THEN rsResult.id = <<>>
              ELSE IF equal # <<>> THEN rsResult.id = equal[1].id
              ELSE rsResult.id = InTargetDb[1].id

\* the search answers a page of another database, then a page of the database
\* asked for with another title, then one with the title asked for: the call
\* returns the last of the three, which is the second candidate
C18_Witness ==
    /\ SearchAnswered
    /\ rsDb = RoadmapDbId
    /\ rsTitle = <<"P", "1">>
    /\ rsSeen = <<Page(PageC, OtherDbId, <<"P", "1">>),
                  Page(PageF, RoadmapDbId, <<"Z", "e", "d">>),
                  Page(PageB, RoadmapDbId, <<"P", "1">>)>>
    /\ Len(InTargetDb) = 2
    /\ InTargetDb[1].id = PageF
    /\ rsResult.id = PageB

\* C21: every relation_title_not_found answer has status 400, ok false, a
\* non-empty unresolved list whose entries name a property and its value, and
\* a suggestions key, also when a request made for the suggestions failed.
C21_SuggestionsKeyPresent ==
    (res.sent /\ res.error = "relation_title_not_found") =>
        /\ res.status = 400
        /\ ~res.ok
        /\ res.unresolved # <<>>
        /\ \A u \in 1..Len(res.unresolved) :
              DOMAIN res.unresolved[u] = {"property", "value"}
        /\ res.hasSuggestions

\* one request to a route, for each configuration of the token and each pair
\* of credential headers
InitAuth ==
    /\ env \in {EnvFull, EnvToken}
    /\ DnIdle
    /\ UpIdle
    /\ RsIdle
    /\ BpIdle
    /\ GiIdle
    /\ PeIdle
    /\ RpIdle
    /\ DlIdle
    /\ auPc = "check"
    /\ auRoute \in GuardedRoutes \cup OpenRoutes
    /\ auHeaders \in [xSolToken : HeaderValues, authorization : HeaderValues]
    /\ auRes = 0
    /\ auEntered = FALSE

NextAuth ==
    \/ AuCheck /\ UNCHANGED <<env, dnVars, upVars, rsVars, bpVars, giVars, peVars, rpVars, dlVars>>
    \/ AuHandler /\ UNCHANGED <<env, dnVars, upVars, rsVars, bpVars, giVars, peVars, rpVars, dlVars>>

SpecAuth == InitAuth /\ [][NextAuth]_vars

\* one /delete_page request, for each configuration and body, with the
\* resolveTitleToId call it makes
InitDelete ==
    /\ env \in {EnvFull, EnvNoKey, EnvNoDbs}
    /\ DnIdle
    /\ UpIdle
    /\ RsIdle
    /\ BpIdle
    /\ GiIdle
    /\ PeIdle
    /\ RpIdle
    /\ AuIdle
    /\ DlIdle

NextDelete ==
    \/ DlReceive /\ UNCHANGED <<env, dnVars, upVars, bpVars, giVars, peVars, rpVars, auVars>>
    \/ RsSchema /\ UNCHANGED <<env, dnVars, upVars, bpVars, giVars, peVars, rpVars, auVars, dlVars>>
    \/ RsExact /\ UNCHANGED <<env, dnVars, upVars, bpVars, giVars, peVars, rpVars, auVars, dlVars>>
    \/ RsContains /\ UNCHANGED <<env, dnVars, upVars, bpVars, giVars, peVars, rpVars, auVars, dlVars>>
    \/ RsSearch /\ UNCHANGED <<env, dnVars, upVars, bpVars, giVars, peVars, rpVars, auVars, dlVars>>
    \/ DlResolved /\ UNCHANGED <<env, dnVars, upVars, bpVars, giVars, peVars, rpVars, auVars>>
    \/ DlAct /\ UNCHANGED <<env, dnVars, upVars, bpVars, giVars, peVars, rpVars, auVars>>

SpecDelete == InitDelete /\ [][NextDelete]_vars

\* the request names its page by db and title: it has no page_id
ByTitle == dlPc # "idle" /\ trim(dlReq.page_id) = <<>>

\* the query for the pages whose title equals the title asked for was answered
\* with no page
NoExactTitle ==
    \E i \in 1..Len(rsCalls) :
        /\ rsCalls[i].op = "QUERY_EQUALS"
        /\ rsCalls[i].status = 200
        /\ rsCalls[i].found = <<>>

\* C33: a delete_page request by db and title archives nothing when the
\* database has no page with exactly that title, and answers not_found (unless
\* it is a dry run): a page that only the contains query or the global search
\* gave is never archived.
C33_OnlyExactTitleArchived ==
    (ByTitle /\ NoExactTitle) =>
        /\ dlArchived = {}
        /\ dlCalls = <<>>
        /\ (dlPc = "done" /\ ~Truthy(dlReq.dry_run)) => dlRes.error = "not_found"

\* C39: a delete_page request with dry_run set issues no archive call and
\* leaves every page as it is; once its page id is known (given as page_id, or
\* resolved from db and title) it is answered ok with dry_run, the action
\* "archive" and that id.
C39_DryRunArchivesNothing ==
    (dlPc # "idle" /\ Truthy(dlReq.dry_run)) =>
        /\ dlCalls = <<>>
        /\ dlArchived = {}
        /\ ~dlRes.archived
        /\ (dlPc = "done" /\ env.NOTION_KEY # <<>>
              /\ (trim(dlReq.page_id) # <<>> \/ rsResult.id # <<>>))
           => dlRes = [NoDeleteRes EXCEPT
                         !.sent = TRUE, !.status = 200, !.ok = TRUE, !.dry_run = TRUE,
                         !.action = "archive",
                         !.page_id = IF trim(dlReq.page_id) # <<>>
                                     THEN trim(dlReq.page_id) ELSE rsResult.id]

C39_Witness ==
    /\ dlPc = "done"
    /\ dlReq.dry_run = VBool(TRUE)
    /\ dlReq.page_id = <<>>
    /\ rsResult.id = PageB
    /\ dlRes.action = "archive"
    /\ dlRes.page_id = PageB
    /\ dlArchived = {}

\* the request carries the token in x-sol-token, or as a Bearer token in
\* authorization
CarriesToken ==
    \/ auHeaders.xSolToken = env.SERVER_TOKEN
    \/ auHeaders.authorization = BearerPrefix \o env.SERVER_TOKEN

\* C34 as stated: with SERVER_TOKEN set, a request to a mutating route that
\* carries no x-sol-token and no Bearer token equal to SERVER_TOKEN is answered
\* 401 and its handler is never entered; with SERVER_TOKEN empty no request is
\* answered 401.
C34_Original_TokenOrBearer ==
    /\ (env.SERVER_TOKEN # <<>> /\ auRoute \in GuardedRoutes /\ auPc # "check"
          /\ ~CarriesToken)
       => (auPc = "done" /\ auRes = 401 /\ ~auEntered)
    /\ env.SERVER_TOKEN = <<>> => auRes # 401

\* the credential of a request: the value of x-sol-token, or of authorization
\* when there is no x-sol-token, without a leading "Bearer "
Credential ==
    LET given == IF auHeaders.xSolToken # <<>> THEN auHeaders.xSolToken
                 ELSE auHeaders.authorization
    IN IF Len(given) >= 7 /\ SubSeq(given, 1, 7) = BearerPrefix
       THEN SubSeq(given, 8, Len(given)) ELSE given

\* C34 as amended: with SERVER_TOKEN set, a request to a mutating route whose
\* credential is not SERVER_TOKEN is answered 401 and its handler is never
\* entered, and one whose credential is SERVER_TOKEN is never answered 401;
\* with SERVER_TOKEN empty, and on the other routes, no request is answered 401.
C34_CredentialRequired ==
    /\ (env.SERVER_TOKEN # <<>> /\ auRoute \in GuardedRoutes /\ auPc # "check") =>
          IF Credential = env.SERVER_TOKEN
          THEN auRes = 0 /\ (auPc = "done" => auEntered)
          ELSE auPc = "done" /\ auRes = 401 /\ ~auEntered
    /\ (env.SERVER_TOKEN = <<>> \/ auRoute \notin GuardedRoutes) => auRes # 401
    /\ auRes \in {0, 401}

C34_Witness ==
    /\ env.SERVER_TOKEN = Token
    /\ auRoute = "/delete_page"
    /\ auHeaders = [xSolToken |-> <<"b", "a", "d">>, authorization |-> BearerPrefix \o Token]
    /\ auPc = "done"
    /\ auRes = 401
    /\ ~auEntered

\* C35: the PATCH of an update carries exactly the properties built from the
\* fields, so the top-level title is never written by an update; the POST of
\* a create whose body has both a title and a field for the title-kind
\* property carries the value of that field as its title.
C35_TitleOnlyFillsCreate ==
    /\ Issued({"PATCH_PAGE"}) =>
          /\ \A i \in 1..Len(writePayload) :
                /\ Has(normalizedFields, writePayload[i].k)
                /\ buildProp(props, writePayload[i].k,
                             Get(normalizedFields, writePayload[i].k), usersIndex)
                      = Built(writePayload[i].v)
          /\ \A j \in 1..Len(normalizedFields) :
                buildProp(props, normalizedFields[j].k, normalizedFields[j].v,
                          usersIndex).tag = "value"
                   => Has(writePayload, normalizedFields[j].k)
    /\ (Issued({"POST_PAGE"}) /\ Truthy(req.title) /\ HasTitleProp(props)
          /\ Has(normalizedFields, TitlePropName(props)))
       => /\ Has(writePayload, TitlePropName(props))
          /\ Get(writePayload, TitlePropName(props)) =
             Payload("title", StringOf(Get(normalizedFields, TitlePropName(props))),
                     <<>>, <<>>, 0, FALSE)

\* C36: of the fields the handler works on, every field of the body keeps the
\* value the body gave it, every other one is a key of content.meta with the
\* value given there, and page_id, id, _update and _mode of content.meta are not
\* among them; a write of a request whose body has a page_id goes to that page,
\* whatever page id content.meta names.
C36_MetaNeverOverrides ==
    pc # "idle" =>
        LET explicit == FieldsOf(reqBody)
            meta == reqBody.content.meta
        IN /\ \A i \in 1..Len(explicit) :
                 /\ Has(req.fields, explicit[i].k)
                 /\ Get(req.fields, explicit[i].k) = explicit[i].v
           /\ \A i \in 1..Len(req.fields) :
                 \/ Has(explicit, req.fields[i].k)
                 \/ /\ Has(meta, req.fields[i].k)
                    /\ req.fields[i].k \notin {K_page_id, K_id, <<"_", "u", "p", "d", "a", "t", "e">>, <<"_", "m", "o", "d", "e">>}
                    /\ req.fields[i].v = Get(meta, req.fields[i].k)
           /\ (Issued(WriteOps) /\ trim(reqBody.page_id) # <<>>)
                 => writeTarget = trim(reqBody.page_id)

C36_Witness ==
    /\ res.ok
    /\ res.mode = "update"
    /\ reqBody.page_id = <<"p", "g", "1">>
    /\ reqBody.content.meta = MetaIdAndPoints
    /\ reqBody.fields = <<Field(K_Points, VNum(3))>>
    /\ writeTarget = <<"p", "g", "1">>
    /\ Has(writePayload, K_Points)
    /\ Get(writePayload, K_Points).n = 3

\* C37: when an upsert is answered ok after a write, every key of the
\* normalized fields is either a property of the write or a key of `skipped`,
\* and never both; `skipped` has no other key; and `skipped` is null exactly when
\* every field is in the write.
C37_EveryFieldAccountedFor ==
    (Answered /\ res.ok /\ ~res.simulating) =>
        /\ \A j \in 1..Len(normalizedFields) :
              Has(writePayload, normalizedFields[j].k)
                 # Has(res.skipped, normalizedFields[j].k)
        /\ \A i \in 1..Len(res.skipped) : Has(normalizedFields, res.skipped[i].k)
        /\ res.skippedIsNull <=>
              \A j \in 1..Len(normalizedFields) :
                  Has(writePayload, normalizedFields[j].k)

\* the last two calls of a request were a write and an append of content
EndsWithAppend(issued) ==
    /\ Len(issued) >= 2
    /\ issued[Len(issued)] = "PATCH_BLOCKS"
    /\ issued[Len(issued) - 1] \in WriteOps

\* the first of the two requests created a page and failed to append to it
FirstAppendFailed ==
    /\ rpRun = 2
    /\ EndsWithAppend(rpFirst.calls)
    /\ rpFirst.calls[Len(rpFirst.calls) - 1] = "POST_PAGE"
    /\ ~rpFirst.res.ok

\* C32: a request whose append of content fails after its write was answered
\* is answered 500 "Failed to upsert page", ok false, with no page id, and the
\* write stays: no further call is made and the page a create made is still
\* there; the same create request made again creates a second page.
C32_AppendFailureKeepsWrite ==
    /\ (pc = "done" /\ EndsWithAppend(calls) /\ statuses[Len(statuses)] # 200) =>
          /\ res.sent
          /\ ~res.ok
          /\ res.status = 500
          /\ res.error = "Failed to upsert page"
          /\ res.page_id = <<>>
          /\ statuses[Len(statuses) - 1] = 200
          /\ (calls[Len(calls) - 1] = "POST_PAGE" /\ rpRun = 1) => upsertCreated = 1
    /\ FirstAppendFailed =>
          /\ rpFirst.res.error = "Failed to upsert page"
          /\ rpFirst.res.page_id = <<>>
          /\ upsertCreated >= 1
          /\ (pc = "append" \/ Issued({"PATCH_BLOCKS"})) =>
                /\ Issued({"POST_PAGE"})
                /\ writeTarget = <<>>
                /\ upsertCreated = 2

C32_Witness ==
    /\ FirstAppendFailed
    /\ pc = "done"
    /\ res.ok
    /\ res.mode = "create"
    /\ upsertCreated = 2

====
